---------------------------- MODULE Spec2Model ----------------------------
(***************************************************************************)
(* Kef_Ocr: the post-processing of an LLM extraction.                      *)
(*                                                                         *)
(*   src/extraction/validators/ssc_validator.py   Maharashtra SSC rules    *)
(*   src/extraction/validators/cbse_validator.py  CBSE rules               *)
(*   src/extraction/llama_json_extractor.py       response parser and the  *)
(*                                                validation dispatcher    *)
(*                                                                         *)
(* Python values are records [k, n, w]: k is the type, n the number (an    *)
(* int, or a float counted in thousandths), w the words of a string or the *)
(* items of a list.  A dict is a record with one field per key; a key the  *)
(* dict does not hold is Absent.  A raw OCR text is the sequence of its    *)
(* whitespace-separated tokens; the regular expressions of the source are  *)
(* evaluated token by token, with character offsets rebuilt from the       *)
(* token widths where the source counts characters.                        *)
(***************************************************************************)
EXTENDS Integers, Sequences, FiniteSets, TLC

\* ------------------------------------------------------------------------
\* Python values
\* ------------------------------------------------------------------------

Absent == [k |-> "absent", n |-> 0, w |-> <<>>]

None == [k |-> "none", n |-> 0, w |-> <<>>]

PyInt(i) == [k |-> "int", n |-> i, w |-> <<>>]

PyFloat(m) == [k |-> "float", n |-> m, w |-> <<>>]

PyStr(ws) == [k |-> "str", n |-> 0, w |-> ws]

PyList(xs) == [k |-> "list", n |-> 0, w |-> xs]

PyTrue == [k |-> "bool", n |-> 1, w |-> <<>>]

\* dict.get(key): None for a key the dict does not hold
Get(v) == IF v = Absent THEN None ELSE v

\* bool(v)
Truthy(v) ==
  CASE v.k \in {"absent", "none"} -> FALSE
    [] v.k \in {"int", "float", "bool"} -> v.n # 0
    [] OTHER -> v.w # <<>>

\* a number in thousandths
Milli(v) == IF v.k = "int" THEN v.n * 1000 ELSE v.n

\* float(s) of a one-word string, in thousandths; -1 where float() raises ValueError
FloatOfWord(s) ==
  CASE s = "500" -> 500000
    [] s = "423" -> 423000
    [] s = "84.60" -> 84600
    [] s = "88" -> 88000
    [] s = "100" -> 100000
    [] s = "90" -> 90000
    [] OTHER -> -1

\* x in (None, "null", "")
IsNullish(v) ==
  v.k = "none" \/ (v.k = "str" /\ (v.w = <<>> \/ v.w = <<"null">>))

\* float(str(x)) in thousandths, or "err" for ValueError / TypeError
FloatOfStr(v) ==
  CASE v.k \in {"int", "float"} -> Milli(v)
    [] v.k = "str" /\ Len(v.w) = 1 /\ FloatOfWord(v.w[1]) >= 0 -> FloatOfWord(v.w[1])
    [] OTHER -> -1

\* int(f) of a non-negative float in thousandths
Trunc(m) == m \div 1000

\* round(f, 2) of a float in thousandths (no value drawn sits on a tie)
Round2(m) == IF m >= 0 THEN ((m + 5) \div 10) * 10 ELSE 0 - (((0 - m) + 5) \div 10) * 10

Max(S) == CHOOSE x \in S : \A y \in S : y <= x

Min(S) == CHOOSE x \in S : \A y \in S : x <= y

\* list comprehension [x for x in s if Keep(x)]
RECURSIVE SelectIdx(_, _)
SelectIdx(s, keep) ==
  IF s = <<>> THEN <<>>
  ELSE IF Len(s) \in keep
       THEN Append(SelectIdx(SubSeq(s, 1, Len(s) - 1), keep), s[Len(s)])
       ELSE SelectIdx(SubSeq(s, 1, Len(s) - 1), keep)

\* ------------------------------------------------------------------------
\* OCR tokens.  Each table gives what a regular expression or string test
\* of the validators yields on one token of the vocabulary the raw texts
\* are written in.
\* ------------------------------------------------------------------------

Vocabulary ==
  {"03", "15", "71", "72", "73", "P1", "R8", "ENGLISH", "HINDI", "MARATHI", "MATHEMATICS", "SCIENCE", "&", "TECHNOLOGY", "SOCIAL", "SCIENCES", "HEALTH", "PHYSICAL", "EDUCATION", "WATER", "SECURITY", "100", "078", "090", "085", "080", "070", "060", "190", "500", "700", "423", "240", "84.60", "2024", "2025", "SEVENTY", "NINETY", "EIGHTY", "SIXTY", "A", "B", "SEAT", "NO", "NEW", "PATTERN", "TOTAL", "Total", "PERCENTAGE", "CBSE", "ICSE"}

\* len(token): the token's width in characters
TokLen(t) ==
  CASE t \in {"03", "15", "71", "72", "73", "P1", "R8", "NO", "is", "to", "A1", "A2", "B1", "C2", "No"} -> 2
    [] t \in {"ENGLISH", "MARATHI", "SCIENCE", "SEVENTY", "PATTERN", "certify", "SUBJECT"} -> 7
    [] t \in {"HINDI", "WATER", "84.60", "SIXTY", "TOTAL", "Total", "RAHUL", "KUMAR", "ANITA", "EIGHT", "FORTY"} -> 5
    [] t \in {"MATHEMATICS", "INFORMATION", "EXAMINATION"} -> 11
    [] t \in {"&", "A", "B", "E", "C"} -> 1
    [] t \in {"TECHNOLOGY", "PERCENTAGE", "ADDITIONAL"} -> 10
    [] t \in {"SOCIAL", "HEALTH", "NINETY", "EIGHTY", "Sharma", "SURESH", "SCHOOL", "Result", "Mother", "Father", "COURSE"} -> 6
    [] t \in {"SCIENCES", "PHYSICAL", "SECURITY", "12345678", "Mother's", "Father's", "COURSE-B", "STANDARD"} -> 8
    [] t \in {"EDUCATION", "SECONDARY"} -> 9
    [] t \in {"100", "078", "090", "085", "080", "070", "060", "190", "500", "700", "423", "240", "NEW", "No.", "184", "002", "041", "086", "087", "402", "436", "999", "NCC", "068", "020", "088", "075", "095", "045", "LIT"} -> 3
    [] t \in {"2024", "2025", "SEAT", "CBSE", "ICSE", "This", "that", "Roll", "Name", "DEVI", "PASS", "FAIL", "LANG", "LIT.", "FIVE"} -> 4
    [] t \in {"EXAMINATION,"} -> 12

\* str.upper() of a token
UpperTok(t) ==
  CASE t \in {"Total"} -> "TOTAL"
    [] t \in {"This"} -> "THIS"
    [] t \in {"is"} -> "IS"
    [] t \in {"to"} -> "TO"
    [] t \in {"certify"} -> "CERTIFY"
    [] t \in {"that"} -> "THAT"
    [] t \in {"Sharma"} -> "SHARMA"
    [] t \in {"Roll"} -> "ROLL"
    [] t \in {"No."} -> "NO."
    [] t \in {"Mother's"} -> "MOTHER'S"
    [] t \in {"Name"} -> "NAME"
    [] t \in {"Father's"} -> "FATHER'S"
    [] t \in {"Result"} -> "RESULT"
    [] t \in {"No"} -> "NO"
    [] t \in {"Mother"} -> "MOTHER"
    [] t \in {"Father"} -> "FATHER"
    [] OTHER -> t

\* the digits a token starts with (\d*)
DigitPrefix(t) ==
  CASE t \in {"03"} -> <<0, 3>>
    [] t \in {"15"} -> <<1, 5>>
    [] t \in {"71"} -> <<7, 1>>
    [] t \in {"72"} -> <<7, 2>>
    [] t \in {"73"} -> <<7, 3>>
    [] t \in {"100"} -> <<1, 0, 0>>
    [] t \in {"078"} -> <<0, 7, 8>>
    [] t \in {"090"} -> <<0, 9, 0>>
    [] t \in {"085"} -> <<0, 8, 5>>
    [] t \in {"080"} -> <<0, 8, 0>>
    [] t \in {"070"} -> <<0, 7, 0>>
    [] t \in {"060"} -> <<0, 6, 0>>
    [] t \in {"190"} -> <<1, 9, 0>>
    [] t \in {"500"} -> <<5, 0, 0>>
    [] t \in {"700"} -> <<7, 0, 0>>
    [] t \in {"423"} -> <<4, 2, 3>>
    [] t \in {"240"} -> <<2, 4, 0>>
    [] t \in {"84.60"} -> <<8, 4>>
    [] t \in {"2024"} -> <<2, 0, 2, 4>>
    [] t \in {"2025"} -> <<2, 0, 2, 5>>
    [] t \in {"12345678"} -> <<1, 2, 3, 4, 5, 6, 7, 8>>
    [] t \in {"184"} -> <<1, 8, 4>>
    [] t \in {"002"} -> <<0, 0, 2>>
    [] t \in {"041"} -> <<0, 4, 1>>
    [] t \in {"086"} -> <<0, 8, 6>>
    [] t \in {"087"} -> <<0, 8, 7>>
    [] t \in {"402"} -> <<4, 0, 2>>
    [] t \in {"436"} -> <<4, 3, 6>>
    [] t \in {"999"} -> <<9, 9, 9>>
    [] t \in {"068"} -> <<0, 6, 8>>
    [] t \in {"020"} -> <<0, 2, 0>>
    [] t \in {"088"} -> <<0, 8, 8>>
    [] t \in {"075"} -> <<0, 7, 5>>
    [] t \in {"095"} -> <<0, 9, 5>>
    [] t \in {"045"} -> <<0, 4, 5>>
    [] OTHER -> <<>>

\* the token starts with [A-Z]
StartsUpper(t) ==
  t \in {"P1", "R8", "ENGLISH", "HINDI", "MARATHI", "MATHEMATICS", "SCIENCE", "TECHNOLOGY", "SOCIAL", "SCIENCES", "HEALTH", "PHYSICAL", "EDUCATION", "WATER", "SECURITY", "SEVENTY", "NINETY", "EIGHTY", "SIXTY", "A", "B", "SEAT", "NO", "NEW", "PATTERN", "TOTAL", "Total", "PERCENTAGE", "CBSE", "ICSE"}

\* the letter grade_pattern v1, ([A-E])(?:\s|$|[^A-Z]), finds in a token
GradeTokV1(t) ==
  CASE t \in {"SCIENCE", "PERCENTAGE", "CBSE", "ICSE"} -> "E"
    [] t \in {"A"} -> "A"
    [] t \in {"B"} -> "B"
    [] OTHER -> ""

\* (?<!\d)(\d{2}\.\d{1,2})(?!\d) in a token, in thousandths
PctDecimal(t) ==
  CASE t \in {"84.60"} -> 84600
    [] OTHER -> -1

\* \b([1-9]\d)(?:\s|$|%) in a token
TwoDigitWord(t) ==
  CASE t \in {"15"} -> 15
    [] t \in {"71"} -> 71
    [] t \in {"72"} -> 72
    [] t \in {"73"} -> 73
    [] t \in {"84.60"} -> 60
    [] OTHER -> -1

\* the values p (thousandths) whose f"{p:.2f}" occurs in the token, not followed by a digit or a dot
PctStringsIn(t) ==
  CASE t \in {"84.60"} -> {4600, 84600}
    [] OTHER -> {}

\* the tokens whose upper-cased text contains the keyword
TokensContaining(kw) ==
  CASE kw = "100" -> {"100"}
    [] kw = "ENGLISH" -> {"ENGLISH"}
    [] kw = "HEALTH" -> {"HEALTH"}
    [] kw = "HINDI" -> {"HINDI"}
    [] kw = "MARATHI" -> {"MARATHI"}
    [] kw = "MATH" -> {"MATHEMATICS"}
    [] kw = "NEW" -> {"NEW"}
    [] kw = "PATTERN" -> {"PATTERN"}
    [] kw = "PHYSICAL" -> {"PHYSICAL"}
    [] kw = "SCI" -> {"SCIENCE", "SCIENCES"}
    [] kw = "SCIENCE" -> {"SCIENCE", "SCIENCES"}
    [] kw = "SECURITY" -> {"SECURITY"}
    [] kw = "SOCIAL" -> {"SOCIAL"}
    [] kw = "TECH" -> {"TECHNOLOGY"}
    [] kw = "TOTAL" -> {"TOTAL", "Total"}
    [] kw = "WATER" -> {"WATER"}
    [] OTHER -> {}

\* re.fullmatch(r"\d+", token)
AllDigits(t) == DigitPrefix(t) # <<>> /\ Len(DigitPrefix(t)) = TokLen(t)

\* int() of a sequence of decimal digits
RECURSIVE IntOf(_)
IntOf(ds) == IF ds = <<>> THEN 0 ELSE 10 * IntOf(SubSeq(ds, 1, Len(ds) - 1)) + ds[Len(ds)]

\* \b(\d{3})\b in a token: the token is a three-digit word
ThreeDigitWord(t) == IF AllDigits(t) /\ TokLen(t) = 3 THEN IntOf(DigitPrefix(t)) ELSE -1

\* (\d{3}) searched in a token: its first three consecutive digits
First3Digits(t) == IF Len(DigitPrefix(t)) >= 3 THEN IntOf(SubSeq(DigitPrefix(t), 1, 3)) ELSE -1

\* 0?(\d{2,3}) matched at the start of a run of digits: the captured number, -1 without a match
Lead0Num(d) ==
  IF Len(d) >= 3 /\ d[1] = 0 THEN IntOf(SubSeq(d, 2, Min({4, Len(d)})))
  ELSE IF Len(d) >= 2 THEN IntOf(SubSeq(d, 1, Min({3, Len(d)})))
  ELSE -1

\* the characters 0?(\d{2,3}) consumes at the start of a run of digits
Lead0Width(d) ==
  IF Len(d) >= 3 /\ d[1] = 0 THEN Min({4, Len(d)}) ELSE Min({3, Len(d)})

\* 0?(\d{2,3})\s: the token is consumed whole by 0?(\d{2,3}); the number, else -1
MarksWord(tok) ==
  IF AllDigits(tok) /\ Lead0Width(DigitPrefix(tok)) = TokLen(tok)
  THEN Lead0Num(DigitPrefix(tok))
  ELSE -1

\* character offset of token i in " ".join(tokens)
RECURSIVE Start(_, _)
Start(t, i) == IF i <= 1 THEN 0 ELSE Start(t, i - 1) + TokLen(t[i - 1]) + 1

\* the token positions at which the words of a phrase stand, compared upper-cased
PhraseAt(t, ph, i) ==
  /\ i >= 1
  /\ i + Len(ph) - 1 <= Len(t)
  /\ \A j \in 1..Len(ph) : UpperTok(t[i + j - 1]) = ph[j]

PhrasePositions(t, ph) == {i \in 1..Len(t) : PhraseAt(t, ph, i)}

\* phrase in raw_text.upper()
HasPhrase(t, ph) == PhrasePositions(t, ph) # {}

\* the first position of a set of positions, 0 when empty
FirstOf(P) == IF P = {} THEN 0 ELSE Min(P)

\* the positions of a set, in increasing order
RECURSIVE SortedSeq(_)
SortedSeq(S) == IF S = {} THEN <<>> ELSE <<Min(S)>> \o SortedSeq(S \ {Min(S)})

\* ------------------------------------------------------------------------
\* ssc_validator.py: rules and format version
\* ------------------------------------------------------------------------

\* _SSC_RULES_V1["code_map"] (shared by _SSC_RULES_V2)
code_map ==
  [c \in {"01", "02", "03", "71", "72", "73", "15", "16", "17", "27", "72:", "725", "73:", "151",
          "P1", "P2", "P4", "P41", "PA", "R8", "RB"} |->
     CASE c = "01" -> "Marathi (1st Lang)"
       [] c = "02" -> "Hindi (1st Lang)"
       [] c = "03" -> "English (1st Lang)"
       [] c = "71" -> "Mathematics"
       [] c \in {"72", "72:", "725"} -> "Science & Technology"
       [] c \in {"73", "73:"} -> "Social Sciences"
       [] c \in {"15", "151"} -> "Hindi (2/3 Lang)"
       [] c = "16" -> "Marathi (2/3 Lang)"
       [] c = "17" -> "English (2/3 Lang)"
       [] c = "27" -> "Sanskrit (2/3 Lang)"
       [] c = "P1" -> "Health & Physical Education"
       [] c = "P2" -> "Scouting/Guiding"
       [] c \in {"P4", "P41", "PA"} -> "Defence Studies"
       [] c \in {"R8", "RB"} -> "Water Security"]

_SSC_GRADE_ONLY_NAMES ==
  {"health & physical education", "scouting/guiding", "water security", "defence studies"}

_SSC_VALID_GRADE_LETTERS == {"A", "B", "C", "D", "E"}

_SSC_TOTALS_MARKERS ==
  <<  <<"WATER", "SECURITY">>, <<"SCOUTING">>, <<"HEALTH", "&", "PHYSICAL">>,
      <<"SOCIAL", "SCIENCES">>, <<"DEFENCE", "STUDIES">>  >>

_SSC_GRADE_ONLY_INJECTION ==
  <<  [marker |-> <<"P1">>, name |-> "Health & Physical Education"],
      [marker |-> <<"HEALTH", "&", "PHYSICAL">>, name |-> "Health & Physical Education"],
      [marker |-> <<"P2">>, name |-> "Scouting/Guiding"],
      [marker |-> <<"SCOUTING">>, name |-> "Scouting/Guiding"],
      [marker |-> <<"R8">>, name |-> "Water Security"],
      [marker |-> <<"WATER", "SECURITY">>, name |-> "Water Security"],
      [marker |-> <<"RB">>, name |-> "Water Security"],
      [marker |-> <<"P4">>, name |-> "Defence Studies"],
      [marker |-> <<"PA">>, name |-> "Defence Studies"],
      [marker |-> <<"P41">>, name |-> "Defence Studies"],
      [marker |-> <<"DEFENCE", "STUDIES">>, name |-> "Defence Studies"]  >>

\* the rule set detect_ssc_format_version returns: "v2" on any v2 indicator, else "v1"
detect_ssc_format_version(t) ==
  IF \/ HasPhrase(t, <<"ACADEMIC", "YEAR", "2025">>)
     \/ HasPhrase(t, <<"REVISED", "MARKSHEET">>)
     \/ HasPhrase(t, <<"FORMAT", "VERSION", "2">>)
     \/ HasPhrase(t, <<"NEW", "PATTERN">>)
  THEN "v2"
  ELSE "v1"

\* code_pattern of the rule set, matched at a token: v1 is \b(code)\s+, a code token
\* with a token after it; v2 needs a "Code:" prefix, which no token of the
\* vocabulary carries
CodeAt(t, rules, i) ==
  /\ rules = "v1"
  /\ t[i] \in DOMAIN code_map
  /\ i < Len(t)

\* a year 2025..2099 standing as a word: \b20(2[5-9]|[3-9]\d)\b
FutureYear(tok) ==
  /\ AllDigits(tok)
  /\ TokLen(tok) = 4
  /\ IntOf(DigitPrefix(tok)) >= 2025
  /\ IntOf(DigitPrefix(tok)) <= 2099

_detect_potential_format_change(t) ==
  LET suspicious ==
        \/ \E i \in 1..(Len(t) - 2) :
             /\ t[i] \in TokensContaining("FORMAT")
             /\ UpperTok(t[i + 1]) = "VERSION"
             /\ DigitPrefix(t[i + 2]) # <<>>
             /\ DigitPrefix(t[i + 2])[1] >= 2
        \/ \E i \in 1..(Len(t) - 1) :
             t[i] \in TokensContaining("REVISED") /\ t[i + 1] \in TokensContaining("MARK")
        \/ \E i \in 1..(Len(t) - 1) :
             t[i] \in TokensContaining("NEW") /\ t[i + 1] \in TokensContaining("PATTERN")
        \/ \E i \in 1..(Len(t) - 1) :
             t[i] \in TokensContaining("UPDATED") /\ t[i + 1] \in TokensContaining("FORMAT")
        \/ \E i \in 1..Len(t) : FutureYear(t[i])
      known_markers == <<  <<"SOCIAL", "SCIENCES">>, <<"MATHEMATICS">>,
                           <<"SEAT", "NO">>, <<"SEAT", "NUMBER">>  >>
      found_markers == Cardinality({k \in 1..4 : HasPhrase(t, known_markers[k])})
      rules == detect_ssc_format_version(t)
      matches == {i \in 1..Len(t) : CodeAt(t, rules, i)}
  IN  \/ suspicious
      \/ found_markers < 2
      \/ Cardinality(matches) < 3

\* ------------------------------------------------------------------------
\* ssc_validator.py: subject extraction strategies
\* ------------------------------------------------------------------------

NumericRow(name, marks) ==
  [subject_name |-> name, marks_obtained |-> PyInt(marks), max_marks |-> PyInt(100), grade |-> None]

GradeRow(name, g) ==
  [subject_name |-> name, marks_obtained |-> None, max_marks |-> None, grade |-> PyStr(<<g>>)]

\* (a variant for comparison) the marks are read as two digits
SegmentMarksTwoDigits(t, a, b) ==
  LET P == {j \in a..(b - 2) :
              /\ t[j] \in TokensContaining("100")
              /\ MarksWord(t[j + 1]) >= 0
              /\ StartsUpper(t[j + 2])}
  IN  IF P = {} THEN -1 ELSE MarksWord(t[Min(P) + 1]) % 100

\* re.search(marks_pattern v1, segment) on the tokens a..b: the marks, else -1
SegmentMarks(t, a, b) ==
  LET P == {j \in a..(b - 2) :
              /\ t[j] \in TokensContaining("100")
              /\ MarksWord(t[j + 1]) >= 0
              /\ StartsUpper(t[j + 2])}
  IN  IF P = {} THEN -1 ELSE MarksWord(t[Min(P) + 1])

\* re.search(grade_pattern v1, segment) on the tokens a..b: the letter, else ""
SegmentGrade(t, a, b) ==
  LET P == {j \in a..b : GradeTokV1(t[j]) # ""}
  IN  IF P = {} THEN "" ELSE GradeTokV1(t[Min(P)])

\* the rows of the code positions cs[k..], each parsed from the segment that runs
\* to the next code position
RECURSIVE CodeRows(_, _, _)
CodeRows(t, cs, k) ==
  IF k > Len(cs) THEN <<>>
  ELSE LET a == cs[k] + 1
           b == IF k < Len(cs) THEN cs[k + 1] - 1 ELSE Len(t)
           subject_name == code_map[t[cs[k]]]
           has100 == \E j \in a..b : t[j] \in TokensContaining("100")
           row == IF has100
                  THEN IF SegmentMarks(t, a, b) >= 0
                       THEN <<NumericRow(subject_name, SegmentMarks(t, a, b))>>
                       ELSE <<>>
                  ELSE IF SegmentGrade(t, a, b) # ""
                       THEN <<GradeRow(subject_name, SegmentGrade(t, a, b))>>
                       ELSE <<>>
       IN  row \o CodeRows(t, cs, k + 1)

_extract_by_code_position(t, rules) ==
  LET code_positions == SortedSeq({i \in 1..Len(t) : CodeAt(t, rules, i)})
      subjects == CodeRows(t, code_positions, 1)
  IN  IF Len(subjects) >= 4 THEN subjects ELSE <<>>

\* keyword in text_clean, for the tokens of a text
HasWord(toks, kw) == \E i \in 1..Len(toks) : toks[i] \in TokensContaining(kw)

\* "1ST" in text or "FIRST" in text or "1 LANG" in text
FirstLang(toks) ==
  \/ HasWord(toks, "1ST")
  \/ HasWord(toks, "FIRST")
  \/ \E i \in 1..(Len(toks) - 1) :
       /\ DigitPrefix(toks[i]) # <<>>
       /\ AllDigits(toks[i])
       /\ DigitPrefix(toks[i])[Len(DigitPrefix(toks[i]))] = 1
       /\ toks[i + 1] \in TokensContaining("LANG")

\* the canonical subject name, "" for None
_fuzzy_match_subject_name(toks) ==
  CASE HasWord(toks, "MATH") -> "Mathematics"
    [] HasWord(toks, "SCIENCE") \/ HasWord(toks, "SCI") \/ HasWord(toks, "TECH") -> "Science & Technology"
    [] HasWord(toks, "SOCIAL") -> "Social Sciences"
    [] HasWord(toks, "MARATHI") ->
         IF FirstLang(toks) THEN "Marathi (1st Lang)" ELSE "Marathi (2/3 Lang)"
    [] HasWord(toks, "HINDI") ->
         IF FirstLang(toks) THEN "Hindi (1st Lang)" ELSE "Hindi (2/3 Lang)"
    [] HasWord(toks, "ENGLISH") ->
         IF FirstLang(toks) THEN "English (1st Lang)" ELSE "English (2/3 Lang)"
    [] HasWord(toks, "SANSKRIT") -> "Sanskrit (2/3 Lang)"
    [] HasWord(toks, "HEALTH") \/ HasWord(toks, "PHYSICAL") -> "Health & Physical Education"
    [] HasWord(toks, "SCOUT") \/ HasWord(toks, "GUID") -> "Scouting/Guiding"
    [] HasWord(toks, "WATER") \/ HasWord(toks, "SECURITY") -> "Water Security"
    [] HasWord(toks, "DEFENCE") \/ HasWord(toks, "DEFENSE") -> "Defence Studies"
    [] OTHER -> ""

\* name.lower().strip() of the subject names that occur in texts and records
LowerStrip(name) ==
  CASE name \in {" Mathematics ", "MATHEMATICS", "Mathematics"} -> "mathematics"
    [] name \in {" Science ", "SCIENCE", "Science"} -> "science"
    [] name \in {"Artificial Intelligence"} -> "artificial intelligence"
    [] name \in {"Assamese"} -> "assamese"
    [] name \in {"Bengali"} -> "bengali"
    [] name \in {"Computer Applications"} -> "computer applications"
    [] name \in {"Defence Studies"} -> "defence studies"
    [] name \in {"Elements of Book Keeping & Accountancy"} -> "elements of book keeping & accountancy"
    [] name \in {"Elements of Business"} -> "elements of business"
    [] name \in {"English"} -> "english"
    [] name \in {"English (1st Lang)"} -> "english (1st lang)"
    [] name \in {"English (2/3 Lang)"} -> "english (2/3 lang)"
    [] name \in {"English Communicative"} -> "english communicative"
    [] name \in {"English Language & Literature"} -> "english language & literature"
    [] name \in {"French"} -> "french"
    [] name \in {"German"} -> "german"
    [] name \in {"Gujarati"} -> "gujarati"
    [] name \in {"HEALTH & PHYSICAL EDUCATION", "Health & Physical Education"} -> "health & physical education"
    [] name \in {"Hindi (1st Lang)"} -> "hindi (1st lang)"
    [] name \in {"Hindi (2/3 Lang)"} -> "hindi (2/3 lang)"
    [] name \in {"Hindi Course-A"} -> "hindi course-a"
    [] name \in {"Hindi Course-B"} -> "hindi course-b"
    [] name \in {"Home Science"} -> "home science"
    [] name \in {"Information Technology"} -> "information technology"
    [] name \in {"Kannada"} -> "kannada"
    [] name \in {"Malayalam"} -> "malayalam"
    [] name \in {"Manipuri"} -> "manipuri"
    [] name \in {"Marathi"} -> "marathi"
    [] name \in {"Marathi (1st Lang)"} -> "marathi (1st lang)"
    [] name \in {"Marathi (2/3 Lang)"} -> "marathi (2/3 lang)"
    [] name \in {"Mathematics Basic"} -> "mathematics basic"
    [] name \in {"Mathematics Standard"} -> "mathematics standard"
    [] name \in {"NCC"} -> "ncc"
    [] name \in {"National Cadet Corps"} -> "national cadet corps"
    [] name \in {"Nepali"} -> "nepali"
    [] name \in {"Odia"} -> "odia"
    [] name \in {"Painting"} -> "painting"
    [] name \in {"Physics"} -> "physics"
    [] name \in {"Punjabi"} -> "punjabi"
    [] name \in {"Russian"} -> "russian"
    [] name \in {"Sanskrit"} -> "sanskrit"
    [] name \in {"Sanskrit (2/3 Lang)"} -> "sanskrit (2/3 lang)"
    [] name \in {"Sanskrit (Communicative)"} -> "sanskrit (communicative)"
    [] name \in {"Science & Technology"} -> "science & technology"
    [] name \in {"Scouting/Guiding"} -> "scouting/guiding"
    [] name \in {"Sindhi"} -> "sindhi"
    [] name \in {"Social Science"} -> "social science"
    [] name \in {"Social Sciences"} -> "social sciences"
    [] name \in {"Tamil"} -> "tamil"
    [] name \in {"Telugu"} -> "telugu"
    [] name \in {"Urdu Course-A"} -> "urdu course-a"
    [] name \in {"Water Security", "water security "} -> "water security"
    [] name \in {"Work Experience"} -> "work experience"
    [] OTHER -> name

\* character offset just past token i
End(t, i) == Start(t, i) + TokLen(t[i])

\* where \s+100\s+0?(\d{2,3}) can match: a token "100" that has a token before it
\* and a token after it that starts with two digits
MarksHeads(t) ==
  {p \in 2..(Len(t) - 1) : t[p] = "100" /\ Lead0Num(DigitPrefix(t[p + 1])) >= 0}

\* re.finditer(numeric_pattern, raw_text) from character offset pos on: the
\* leftmost start s >= pos from which .{10,50}? reaches the end of the token that
\* stands before a marks head; the next match starts where this one ends, which
\* is one letter into the following token when (?:\s+([A-Z]))? matched
RECURSIVE NumericMatches(_, _)
NumericMatches(t, pos) ==
  LET cand == {p \in MarksHeads(t) : End(t, p - 1) >= pos + 10}
  IN  IF cand = {} THEN <<>>
      ELSE LET p == Min(cand)
               s == Max({pos, End(t, p - 1) - 50})
               d == DigitPrefix(t[p + 1])
               whole == Lead0Width(d) = TokLen(t[p + 1])
               letter == whole /\ p + 2 <= Len(t) /\ StartsUpper(t[p + 2])
               stop == IF letter THEN Start(t, p + 2) + 1
                       ELSE Start(t, p + 1) + Lead0Width(d)
               first == Min({i \in 1..p : Start(t, i) >= s})
           IN  <<[subject_text |-> SubSeq(t, first, p - 1), marks |-> Lead0Num(d)]>>
                 \o NumericMatches(t, stop)

\* the (first keyword, last keyword) pairs of grade_only_pattern
grade_only_alternatives ==
  <<  <<"HEALTH", "PHYSICAL">>, <<"SCOUT", "GUID">>, <<"WATER", "SECURITY">>, <<"DEFENCE", "STUD">>  >>

\* [A-E] with re.IGNORECASE, standing as a token
GradeLetterTok(tok) == TokLen(tok) = 1 /\ UpperTok(tok) \in _SSC_VALID_GRADE_LETTERS

\* the token at which a grade_only_pattern match that starts at token i ends
\* (the lazy .*? stops at the first end keyword a grade letter follows), 0 if none
GradeOnlyEnd(t, i) ==
  FirstOf({j \in i..(Len(t) - 1) :
             /\ \E a \in 1..4 : /\ t[i] \in TokensContaining(grade_only_alternatives[a][1])
                                /\ t[j] \in TokensContaining(grade_only_alternatives[a][2])
             /\ GradeLetterTok(t[j + 1])})

\* re.finditer(grade_only_pattern, raw_text, re.IGNORECASE) from token i on
RECURSIVE GradeOnlyMatches(_, _)
GradeOnlyMatches(t, i) ==
  LET starts == {k \in i..Len(t) : GradeOnlyEnd(t, k) # 0}
  IN  IF starts = {} THEN <<>>
      ELSE LET k == Min(starts)
               j == GradeOnlyEnd(t, k)
           IN  <<[subject_text |-> SubSeq(t, k, j), grade |-> UpperTok(t[j + 1])]>>
                 \o GradeOnlyMatches(t, j + 2)

RECURSIVE NumericTableRows(_, _)
NumericTableRows(ms, k) ==
  IF k > Len(ms) THEN <<>>
  ELSE LET canonical == _fuzzy_match_subject_name(ms[k].subject_text)
           row == IF /\ ms[k].marks <= 100
                     /\ canonical # ""
                     /\ LowerStrip(canonical) \notin _SSC_GRADE_ONLY_NAMES
                  THEN <<NumericRow(canonical, ms[k].marks)>>
                  ELSE <<>>
       IN  row \o NumericTableRows(ms, k + 1)

RECURSIVE GradeTableRows(_, _)
GradeTableRows(ms, k) ==
  IF k > Len(ms) THEN <<>>
  ELSE LET canonical == _fuzzy_match_subject_name(ms[k].subject_text)
           row == IF canonical # "" THEN <<GradeRow(canonical, ms[k].grade)>> ELSE <<>>
       IN  row \o GradeTableRows(ms, k + 1)

_extract_by_table_structure(t) ==
  NumericTableRows(NumericMatches(t, 0), 1) \o GradeTableRows(GradeOnlyMatches(t, 1), 1)

\* subject_keywords of _extract_by_fuzzy_matching: "" stands for None
subject_keywords ==
  <<  [keyword |-> "MATHEMATICS", base |-> "Mathematics", title |-> "Mathematics"],
      [keyword |-> "SCIENCE", base |-> "Science & Technology", title |-> "Science"],
      [keyword |-> "SOCIAL", base |-> "Social Sciences", title |-> "Social"],
      [keyword |-> "MARATHI", base |-> "", title |-> "Marathi"],
      [keyword |-> "HINDI", base |-> "", title |-> "Hindi"],
      [keyword |-> "ENGLISH", base |-> "", title |-> "English"],
      [keyword |-> "SANSKRIT", base |-> "Sanskrit (2/3 Lang)", title |-> "Sanskrit"]  >>

\* f"{keyword.title()} (1st Lang)" and f"{keyword.title()} (2/3 Lang)"
LangName(title, first) ==
  CASE title = "Marathi" -> IF first THEN "Marathi (1st Lang)" ELSE "Marathi (2/3 Lang)"
    [] title = "Hindi" -> IF first THEN "Hindi (1st Lang)" ELSE "Hindi (2/3 Lang)"
    [] OTHER -> IF first THEN "English (1st Lang)" ELSE "English (2/3 Lang)"

\* the digits of token i that lie before character offset lim
DigitsBefore(t, i, lim) ==
  LET d == DigitPrefix(t[i])
      n == Min({Len(d), Max({0, lim - Start(t, i)})})
  IN  SubSeq(d, 1, n)

\* re.search(r"100\s+0?(\d{2,3})", raw_text[pos:pos + 100]) for the keyword at
\* token i: the marks, else -1
WindowMarks(t, i) ==
  LET lim == Start(t, i) + 100
      P == {j \in i..(Len(t) - 1) :
              /\ t[j] \in TokensContaining("100")
              /\ Lead0Num(DigitsBefore(t, j + 1, lim)) >= 0}
  IN  IF P = {} THEN -1 ELSE Lead0Num(DigitsBefore(t, Min(P) + 1, lim))

\* the tokens that begin inside raw_text[pos:pos + 100]
WindowToks(t, i) ==
  SubSeq(t, i, Max({j \in i..Len(t) : Start(t, j) < Start(t, i) + 100}))

\* the occurrences os[n..] of keyword k, then the keywords after k
RECURSIVE FuzzyRows(_, _, _, _)
FuzzyRows(t, k, n, seen) ==
  IF k > Len(subject_keywords) THEN <<>>
  ELSE LET kw == subject_keywords[k]
           os == SortedSeq(PhrasePositions(t, <<kw.keyword>>))
       IN  IF n > Len(os) THEN FuzzyRows(t, k + 1, 1, seen)
           ELSE LET marks == WindowMarks(t, os[n])
                    segment == WindowToks(t, os[n])
                    canonical ==
                      IF kw.base = ""
                      THEN LangName(kw.title, HasWord(segment, "1ST") \/ HasWord(segment, "FIRST"))
                      ELSE kw.base
                IN  IF marks >= 0 /\ marks <= 100 /\ LowerStrip(canonical) \notin seen
                    THEN <<NumericRow(canonical, marks)>>
                           \o FuzzyRows(t, k, n + 1, seen \cup {LowerStrip(canonical)})
                    ELSE FuzzyRows(t, k, n + 1, seen)

_extract_by_fuzzy_matching(t) == FuzzyRows(t, 1, 1, {})

\* the strategies in order; the first that yields at least four rows wins
extract_subjects_from_raw_text(t) ==
  LET rules == detect_ssc_format_version(t)
  IN  IF Len(_extract_by_code_position(t, rules)) >= 4 THEN _extract_by_code_position(t, rules)
      ELSE IF Len(_extract_by_table_structure(t)) >= 4 THEN _extract_by_table_structure(t)
      ELSE IF Len(_extract_by_fuzzy_matching(t)) >= 4 THEN _extract_by_fuzzy_matching(t)
      ELSE <<>>

\* ------------------------------------------------------------------------
\* ssc_validator.py: totals area
\* ------------------------------------------------------------------------

\* raw_text from the last totals marker on, the whole text if no marker stands
\* after the first token
_totals_area(t) ==
  LET idx == UNION {PhrasePositions(t, _SSC_TOTALS_MARKERS[m]) : m \in 1..Len(_SSC_TOTALS_MARKERS)}
      start == IF idx = {} THEN 1 ELSE Max(idx)
  IN  SubSeq(t, start, Len(t))

\* the float of the first percentage decimal of the area, else of its first
\* two-digit word in 30..100, in thousandths; -1 for None
extract_percentage_from_text(t) ==
  LET area == _totals_area(t)
      dec == {i \in 1..Len(area) : PctDecimal(area[i]) >= 0 /\ PctDecimal(area[i]) <= 100000}
      two == {i \in 1..Len(area) : TwoDigitWord(area[i]) >= 30 /\ TwoDigitWord(area[i]) <= 100}
  IN  IF dec # {} THEN PctDecimal(area[Min(dec)])
      ELSE IF two # {} THEN TwoDigitWord(area[Min(two)]) * 1000
      ELSE -1

\* (a variant for comparison) 700 counts as a valid total
valid_totals_700 == {400, 500, 600, 700}

valid_totals == {400, 500, 600}

\* re.search(first.*?(\d{3}), area, re.IGNORECASE): the three digits that first
\* follow the first token holding the keyword, -1 without a match
FirstThreeAfter(area, kws) ==
  LET heads == {i \in 1..Len(area) : area[i] \in TokensContaining(kws[1])}
      mids == IF Len(kws) = 1 THEN heads
              ELSE {j \in 1..Len(area) : heads # {} /\ j > Min(heads)
                                         /\ area[j] \in TokensContaining(kws[2])}
      nums == {j \in 1..Len(area) : mids # {} /\ j > Min(mids) /\ First3Digits(area[j]) >= 0}
  IN  IF nums = {} THEN -1 ELSE First3Digits(area[Min(nums)])

\* 400, 500, 600, or -1 for None
extract_total_max_marks_from_text(t) ==
  LET area == _totals_area(t)
      pats == <<  <<"TOTAL">>, <<"GRAND">>, <<"MAX", "MARKS">>  >>
      hit == {k \in 1..3 : FirstThreeAfter(area, pats[k]) \in valid_totals}
      words == {i \in 1..Len(area) : ThreeDigitWord(area[i]) \in valid_totals}
  IN  IF hit # {} THEN FirstThreeAfter(area, pats[Min(hit)])
      ELSE IF words # {} THEN ThreeDigitWord(area[Min(words)])
      ELSE -1

\* the highest three-digit word of the area (no leading zero) that is below
\* total_max_marks and at least half of it; -1 for None
extract_total_marks_obtained_from_text(t, total_max_marks) ==
  LET area == _totals_area(t)
      candidates == {ThreeDigitWord(area[i]) : i \in 1..Len(area)}
                      \cap {c \in 100..999 : c < total_max_marks /\ 2 * c >= total_max_marks}
  IN  IF candidates # {} THEN Max(candidates) ELSE -1

\* ------------------------------------------------------------------------
\* ssc_validator.py: validate_and_fix_ssc_marksheet
\* ------------------------------------------------------------------------

\* the keys a record may hold
Fields ==
  {"mother_name", "student_name", "father_name", "fathers_name", "subjects",
   "total_max_marks", "total_marks_obtained", "percentage",
   "_extraction_method", "_extraction_warnings", "_needs_manual_review",
   "roll_number", "exam_year", "result", "board", "document_type", "date_of_birth",
   "additional_subjects",
   "parent_name", "address", "account_holder_name", "account_number",
   "aadhaar_number", "name", "gender", "pan_number", "income_years", "validity_date",
   "extracted_data", "error", "raw_response", "income_value"}

\* the dict {}
EmptyRecord == [f \in Fields |-> Absent]

\* data.get("subjects", [])
RowsOf(v) == IF v.k = "list" THEN v.w ELSE <<>>

\* -1 for None, else the int
OptInt(x) == IF x < 0 THEN None ELSE PyInt(x)

\* -1 for None, else the float (thousandths)
OptFloat(m) == IF m < 0 THEN None ELSE PyFloat(m)

\* str(v).strip().split()
Words(v) == IF v.k = "str" THEN v.w ELSE <<"1">>

\* int(f) of a float in thousandths: truncation toward zero
IntTrunc(m) == IF m >= 0 THEN m \div 1000 ELSE 0 - ((0 - m) \div 1000)

\* int(float(str(x))) if x not in (None, "null", "") else None; None when the
\* conversion raises ValueError or TypeError
ToInt(v) ==
  IF IsNullish(v) \/ v.k \notin {"int", "float", "str"} THEN None
  ELSE IF v.k = "str" /\ FloatOfStr(v) < 0 THEN None
  ELSE PyInt(IntTrunc(FloatOfStr(v)))

\* float(str(x)) if x not in (None, "null", "") else None, likewise
ToFloat(v) ==
  IF IsNullish(v) \/ v.k \notin {"int", "float", "str"} THEN None
  ELSE IF v.k = "str" /\ FloatOfStr(v) < 0 THEN None
  ELSE PyFloat(FloatOfStr(v))

\* str.upper() of a grade string
UpperLetter(w) ==
  CASE w = "a" -> "A"
    [] w = "b" -> "B"
    [] OTHER -> w

\* subj.get("marks_obtained") or 0
MarksOrZero(row) == IF Truthy(row.marks_obtained) THEN row.marks_obtained ELSE PyInt(0)

\* the characters of a string of digits that the LLM writes for a number
DigitsOfWord(s) ==
  CASE s = "100" -> <<1, 0, 0>>
    [] s = "90" -> <<9, 0>>
    [] s = "88" -> <<8, 8>>
    [] s = "500" -> <<5, 0, 0>>
    [] s = "423" -> <<4, 2, 3>>
    [] OTHER -> <<>>

\* a > b of two strings: the first character that differs decides, and a
\* string is greater than each proper prefix of it
RECURSIVE LexGreater(_, _)
LexGreater(a, b) ==
  IF a = <<>> THEN FALSE
  ELSE IF b = <<>> THEN TRUE
  ELSE IF a[1] # b[1] THEN a[1] > b[1]
  ELSE LexGreater(Tail(a), Tail(b))

\* current_marks > existing_marks: two numbers compare by value, two strings
\* by their characters (a string against a number is a TypeError; no record
\* here mixes the two among the duplicates of one name)
HigherMarks(current_marks, existing_marks) ==
  IF current_marks.k = "str" /\ existing_marks.k = "str"
  THEN LexGreater(DigitsOfWord(current_marks.w[1]), DigitsOfWord(existing_marks.w[1]))
  ELSE Milli(current_marks) > Milli(existing_marks)

\* the de-duplication of the LLM's rows: a later duplicate of a numeric subject
\* replaces the kept row only if its marks are higher
RECURSIVE Dedupe(_, _, _)
Dedupe(rows, k, deduped) ==
  IF k > Len(rows) THEN deduped
  ELSE LET subj == rows[k]
           name_lower == LowerStrip(subj.subject_name)
           is_grade_only == name_lower \in _SSC_GRADE_ONLY_NAMES
           same == {i \in 1..Len(deduped) : LowerStrip(deduped[i].subject_name) = name_lower}
       IN  IF same # {} /\ ~is_grade_only
           THEN IF HigherMarks(MarksOrZero(subj), MarksOrZero(deduped[Max(same)]))
                THEN Dedupe(rows, k + 1,
                            Append(SelectIdx(deduped, (1..Len(deduped)) \ same), subj))
                ELSE Dedupe(rows, k + 1, deduped)
           ELSE Dedupe(rows, k + 1, Append(deduped, subj))

\* (a variant for comparison) step 3 that leaves the grade of a numeric row as
\* the LLM gave it
PerSubjectRuleKeepGrade(subj) ==
  IF LowerStrip(subj.subject_name) \in _SSC_GRADE_ONLY_NAMES
  THEN [subj EXCEPT !.marks_obtained = None,
                    !.max_marks = None,
                    !.grade = IF /\ @.k = "str"
                                 /\ Len(@.w) = 1
                                 /\ UpperLetter(@.w[1]) \in _SSC_VALID_GRADE_LETTERS
                              THEN PyStr(<<UpperLetter(@.w[1])>>)
                              ELSE PyStr(<<"A">>)]
  ELSE [subj EXCEPT !.marks_obtained = IF @ = None THEN None ELSE ToInt(@),
                    !.max_marks = PyInt(100)]

\* step 3 on one row
PerSubjectRule(subj) ==
  IF LowerStrip(subj.subject_name) \in _SSC_GRADE_ONLY_NAMES
  THEN LET g == subj.grade
       IN  [subj EXCEPT !.marks_obtained = None,
                        !.max_marks = None,
                        !.grade = IF /\ g.k = "str"
                                     /\ Len(g.w) = 1
                                     /\ UpperLetter(g.w[1]) \in _SSC_VALID_GRADE_LETTERS
                                  THEN PyStr(<<UpperLetter(g.w[1])>>)
                                  ELSE PyStr(<<"A">>)]
  ELSE [subj EXCEPT !.grade = None,
                    !.marks_obtained = IF subj.marks_obtained = None THEN None
                                       ELSE ToInt(subj.marks_obtained),
                    !.max_marks = PyInt(100)]

\* (a variant for comparison) injection without the look at the names present
RECURSIVE InjectAlways(_, _, _)
InjectAlways(t, rows, k) ==
  IF k > Len(_SSC_GRADE_ONLY_INJECTION) THEN rows
  ELSE LET e == _SSC_GRADE_ONLY_INJECTION[k]
       IN  IF HasPhrase(t, e.marker)
           THEN InjectAlways(t, Append(rows, GradeRow(e.name, "A")), k + 1)
           ELSE InjectAlways(t, rows, k + 1)

\* step 4 from injection entry k on
RECURSIVE Inject(_, _, _)
Inject(t, rows, k) ==
  IF k > Len(_SSC_GRADE_ONLY_INJECTION) THEN rows
  ELSE LET e == _SSC_GRADE_ONLY_INJECTION[k]
           existing_names == {LowerStrip(rows[i].subject_name) : i \in 1..Len(rows)}
       IN  IF HasPhrase(t, e.marker) /\ LowerStrip(e.name) \notin existing_names
           THEN Inject(t, Append(rows, GradeRow(e.name, "A")), k + 1)
           ELSE Inject(t, rows, k + 1)

\* re.search(re.escape(f"{pct:.2f}") + r"(?!\d)(?!\.)", raw_text)
PctInText(t, m) == \E i \in 1..Len(t) : Round2(m) \in PctStringsIn(t[i])

\* (a variant for comparison) the rows of the LLM are kept after the rows of the text
MergeSubjects(actual_subjects, llm_subjects) ==
  actual_subjects \o Dedupe(RowsOf(llm_subjects), 1, <<>>)

\* 2. subjects: the rows read from the text replace the LLM's rows; without
\* them the LLM's rows are kept, de-duplicated
ReplaceSubjects(actual_subjects, llm_subjects) ==
  IF actual_subjects # <<>> THEN actual_subjects
  ELSE Dedupe(RowsOf(llm_subjects), 1, <<>>)

\* 5. total_max_marks: the value of the text whenever the LLM's value differs
\* from it
FixTotalMax(llm_value, tmm_text) ==
  IF ToInt(Get(llm_value)) # tmm_text THEN tmm_text ELSE ToInt(Get(llm_value))

\* 5. total_marks_obtained: verified against the text only when total_max_marks
\* is known, then dropped if it exceeds total_max_marks
FixTotalObtained(llm_value, tmm, t) ==
  LET tmo0 == ToInt(Get(llm_value))
      tmo_text == IF tmm = None THEN None
                  ELSE OptInt(extract_total_marks_obtained_from_text(t, tmm.n))
      tmo1 == IF tmm # None /\ tmo0 # tmo_text THEN tmo_text ELSE tmo0
  IN  IF tmm # None /\ tmo1 # None /\ tmo1.n > tmm.n THEN None ELSE tmo1

\* (a variant for comparison) a percentage in 0..100 is kept without a look at
\* the text
KeepPercentage(llm_value, t) ==
  LET pct0 == ToFloat(Get(llm_value))
      in_range(p) == p # None /\ p.n >= 0 /\ p.n <= 100000
      pct2 == IF ~in_range(pct0) THEN OptFloat(extract_percentage_from_text(t)) ELSE pct0
  IN  IF pct2 # None THEN PyFloat(Round2(pct2.n)) ELSE None

\* 5. percentage: a value in 0..100 that is not written in the text is dropped,
\* a missing or out-of-range value is read from the text; rounded to 2 places
FixPercentage(llm_value, t) ==
  LET pct0 == ToFloat(Get(llm_value))
      in_range(p) == p # None /\ p.n >= 0 /\ p.n <= 100000
      pct1 == IF in_range(pct0) /\ ~PctInText(t, pct0.n) THEN None ELSE pct0
      pct2 == IF ~in_range(pct1) THEN OptFloat(extract_percentage_from_text(t)) ELSE pct1
  IN  IF pct2 # None THEN PyFloat(Round2(pct2.n)) ELSE None

\* (a variant for comparison) the anomalies without missing_percentage
AnomaliesNoPercentage(replaced, t, student, subjects, percentage) ==
  (IF replaced THEN <<>> ELSE <<"subject_extraction_failed">>)
  \o (IF _detect_potential_format_change(t) THEN <<"possible_format_change">> ELSE <<>>)
  \o (IF ~Truthy(Get(student)) THEN <<"missing_student_name">> ELSE <<>>)
  \o (IF Len(subjects) < 5 THEN <<"insufficient_subjects">> ELSE <<>>)

\* 6. the anomalies, in the order they are appended
Anomalies(replaced, t, student, subjects, percentage) ==
  (IF replaced THEN <<>> ELSE <<"subject_extraction_failed">>)
  \o (IF _detect_potential_format_change(t) THEN <<"possible_format_change">> ELSE <<>>)
  \o (IF ~Truthy(Get(student)) THEN <<"missing_student_name">> ELSE <<>>)
  \o (IF Len(subjects) < 5 THEN <<"insufficient_subjects">> ELSE <<>>)
  \o (IF percentage = None THEN <<"missing_percentage">> ELSE <<>>)

\* (a variant for comparison) the list is attached whether or not it is empty
AttachAlways(d, anomalies) ==
  [d EXCEPT
     !._extraction_warnings = PyList(anomalies),
     !._needs_manual_review = IF anomalies # <<>> THEN PyTrue ELSE @]

\* 6. if anomalies: the list and the review flag are written into the record
AttachWarnings(d, anomalies) ==
  [d EXCEPT
     !._extraction_warnings = IF anomalies # <<>> THEN PyList(anomalies) ELSE @,
     !._needs_manual_review = IF anomalies # <<>> THEN PyTrue ELSE @]

\* the record validate_and_fix_ssc_marksheet returns for the record data and the
\* raw text t
validate_and_fix_ssc_marksheet(data, t) ==
  LET \* 1. names
      mother == IF Truthy(Get(data.mother_name)) /\ Len(Words(data.mother_name)) > 1
                THEN PyStr(<<Words(data.mother_name)[1]>>)
                ELSE data.mother_name
      student == IF Truthy(Get(data.student_name)) /\ Len(Words(data.student_name)) > 3
                 THEN PyStr(SubSeq(Words(data.student_name), 1, 3))
                 ELSE data.student_name
      move == data.fathers_name # Absent /\ data.father_name = Absent
      father0 == IF move THEN data.fathers_name ELSE data.father_name
      father == IF father0.k = "str" /\ father0.w \in {<<"null">>, <<"None">>, <<>>}
                THEN None
                ELSE father0
      \* 3. per-subject rules
      Rules(subjects2) == [i \in 1..Len(subjects2) |-> PerSubjectRule(subjects2[i])]
      \* 5. totals
      Totals(tmm) ==
        [data EXCEPT
           !.mother_name = mother,
           !.student_name = student,
           !.father_name = father,
           !.fathers_name = IF move THEN Absent ELSE @,
           !.total_max_marks = tmm,
           !.total_marks_obtained = FixTotalObtained(data.total_marks_obtained, tmm, t),
           !.percentage = FixPercentage(data.percentage, t)]
      \* 6. anomalies
      Review(d, replaced, subjects4) ==
        AttachWarnings([d EXCEPT
                !.subjects = PyList(subjects4),
                !._extraction_method =
                  IF replaced THEN PyStr(<<"regex">>) ELSE PyStr(<<"llm_fallback">>)],
             Anomalies(replaced, t, student, subjects4, d.percentage))
      \* 2. subjects, 4. injection
      Subjects(actual_subjects) ==
        Review(Totals(FixTotalMax(data.total_max_marks,
                                  OptInt(extract_total_max_marks_from_text(t)))),
               actual_subjects # <<>>,
               Inject(t, Rules(ReplaceSubjects(actual_subjects, data.subjects)), 1))
  IN  Subjects(extract_subjects_from_raw_text(t))

\* ------------------------------------------------------------------------
\* cbse_validator.py: tokens of the CBSE texts
\* ------------------------------------------------------------------------

CbseVocabulary ==
  {"This", "is", "to", "certify", "that", "RAHUL", "KUMAR", "Sharma", "Roll", "No.", "12345678", "Mother's", "Name", "ANITA", "DEVI", "Father's", "SURESH", "SECONDARY", "SCHOOL", "EXAMINATION,", "2024", "Result", "PASS", "FAIL", "184", "002", "041", "086", "087", "402", "436", "999", "ENGLISH", "LANG", "&", "LIT.", "HINDI", "COURSE-B", "MATHEMATICS", "STANDARD", "SCIENCE", "SOCIAL", "INFORMATION", "TECHNOLOGY", "NCC", "068", "020", "088", "075", "095", "045", "EIGHTY", "EIGHT", "SEVENTY", "FIVE", "NINETY", "FORTY", "A1", "A2", "B1", "C2", "A", "E", "ADDITIONAL", "SUBJECT", "CBSE", "ICSE"}

\* (\d{3})\s+ at the end of a token: its last three digits as the code
CodeTail(t) ==
  CASE t \in {"12345678"} -> "678"
    [] t \in {"2024"} -> "024"
    [] t \in {"184"} -> "184"
    [] t \in {"002"} -> "002"
    [] t \in {"041"} -> "041"
    [] t \in {"086"} -> "086"
    [] t \in {"087"} -> "087"
    [] t \in {"402"} -> "402"
    [] t \in {"436"} -> "436"
    [] t \in {"999"} -> "999"
    [] t \in {"068"} -> "068"
    [] t \in {"020"} -> "020"
    [] t \in {"088"} -> "088"
    [] t \in {"075"} -> "075"
    [] t \in {"095"} -> "095"
    [] t \in {"045"} -> "045"
    [] OTHER -> ""

\* every character of the token is in [A-Z0-9&./:'()-], any case
NameChars(t) ==
  t \in {"This", "is", "to", "certify", "that", "RAHUL", "KUMAR", "Sharma", "Roll", "No.", "12345678", "Mother's", "Name", "ANITA", "DEVI", "Father's", "SURESH", "SECONDARY", "SCHOOL", "2024", "Result", "PASS", "FAIL", "184", "002", "041", "086", "087", "402", "436", "999", "ENGLISH", "LANG", "&", "LIT.", "HINDI", "COURSE-B", "MATHEMATICS", "STANDARD", "SCIENCE", "SOCIAL", "INFORMATION", "TECHNOLOGY", "NCC", "068", "020", "088", "075", "095", "045", "EIGHTY", "EIGHT", "SEVENTY", "FIVE", "NINETY", "FORTY", "A1", "A2", "B1", "C2", "A", "E", "ADDITIONAL", "SUBJECT", "CBSE", "ICSE"}

\* the token starts with a letter
LetterFirst(t) ==
  t \in {"This", "is", "to", "certify", "that", "RAHUL", "KUMAR", "Sharma", "Roll", "No.", "Mother's", "Name", "ANITA", "DEVI", "Father's", "SURESH", "SECONDARY", "SCHOOL", "EXAMINATION,", "Result", "PASS", "FAIL", "ENGLISH", "LANG", "LIT.", "HINDI", "COURSE-B", "MATHEMATICS", "STANDARD", "SCIENCE", "SOCIAL", "INFORMATION", "TECHNOLOGY", "NCC", "EIGHTY", "EIGHT", "SEVENTY", "FIVE", "NINETY", "FORTY", "A1", "A2", "B1", "C2", "A", "E", "ADDITIONAL", "SUBJECT", "CBSE", "ICSE"}

\* re.fullmatch([A-Za-z]+, token)
LettersOnly(t) ==
  t \in {"This", "is", "to", "certify", "that", "RAHUL", "KUMAR", "Sharma", "Roll", "Name", "ANITA", "DEVI", "SURESH", "SECONDARY", "SCHOOL", "Result", "PASS", "FAIL", "ENGLISH", "LANG", "HINDI", "MATHEMATICS", "STANDARD", "SCIENCE", "SOCIAL", "INFORMATION", "TECHNOLOGY", "NCC", "EIGHTY", "EIGHT", "SEVENTY", "FIVE", "NINETY", "FORTY", "A", "E", "ADDITIONAL", "SUBJECT", "CBSE", "ICSE"}

\* re.fullmatch([A-Z]+, token)
AllCaps(t) ==
  t \in {"RAHUL", "KUMAR", "ANITA", "DEVI", "SURESH", "SECONDARY", "SCHOOL", "PASS", "FAIL", "ENGLISH", "LANG", "HINDI", "MATHEMATICS", "STANDARD", "SCIENCE", "SOCIAL", "INFORMATION", "TECHNOLOGY", "NCC", "EIGHTY", "EIGHT", "SEVENTY", "FIVE", "NINETY", "FORTY", "A", "E", "ADDITIONAL", "SUBJECT", "CBSE", "ICSE", "EXAMINATION", "LIT", "COURSE", "B", "C"}

\* a word _NAME_NOISE_RE cuts at: lower-case start, TitleCase, or OR / AND / THE
NoiseWord(t) ==
  t \in {"This", "is", "to", "certify", "that", "Sharma", "Roll", "No.", "Mother's", "Name", "Father's", "Result", "No", "Mother", "Father"}

\* (A1|A2|B1|B2|C1|C2|D|E1|E2|E)\b at the start of a token, upper-cased
Grade9Head(t) ==
  CASE t \in {"A1"} -> "A1"
    [] t \in {"A2"} -> "A2"
    [] t \in {"B1"} -> "B1"
    [] t \in {"C2"} -> "C2"
    [] t \in {"E"} -> "E"
    [] OTHER -> ""

\* (A\+?|B\+?|C\+?|[A-E])\b at the start of a token, upper-cased
GradeCHead(t) ==
  CASE t \in {"A"} -> "A"
    [] t \in {"E"} -> "E"
    [] OTHER -> ""

\* (\d{7,9})\b at the start of a token
RollDigits(t) ==
  CASE t \in {"12345678"} -> "12345678"
    [] OTHER -> ""

\* (\d{4}) at the start of a token
Year4(t) ==
  CASE t \in {"12345678"} -> "1234"
    [] t \in {"2024"} -> "2024"
    [] OTHER -> ""

\* (PASS|FAIL|COMPARTMENT)\b at the start of a token, upper-cased
ResultHead(t) ==
  CASE t \in {"PASS"} -> "PASS"
    [] t \in {"FAIL"} -> "FAIL"
    [] OTHER -> ""

\* the letters a token starts with ([A-Za-z]*)
LetterPrefix(t) ==
  CASE t \in {"No."} -> "No"
    [] t \in {"12345678", "2024", "184", "002", "041", "086", "087", "402", "436", "999", "&", "068", "020", "088", "075", "095", "045"} -> ""
    [] t \in {"Mother's"} -> "Mother"
    [] t \in {"Father's"} -> "Father"
    [] t \in {"EXAMINATION,"} -> "EXAMINATION"
    [] t \in {"LIT."} -> "LIT"
    [] t \in {"COURSE-B"} -> "COURSE"
    [] t \in {"A1", "A2"} -> "A"
    [] t \in {"B1"} -> "B"
    [] t \in {"C2"} -> "C"
    [] OTHER -> t

\* the lazy name group (?:[A-Z][...]+?)+? tries the end of the token before any later end: it advances two characters from a letter, one from any other
StopsAtEnd(t) ==
  t \in {"This", "is", "to", "that", "Sharma", "Roll", "No.", "12345678", "Name", "DEVI", "SURESH", "SCHOOL", "EXAMINATION,", "2024", "Result", "PASS", "FAIL", "184", "002", "041", "086", "087", "402", "436", "999", "LANG", "&", "LIT.", "STANDARD", "SOCIAL", "TECHNOLOGY", "068", "020", "088", "075", "095", "045", "EIGHTY", "FIVE", "NINETY", "A1", "A2", "B1", "C2", "ADDITIONAL", "CBSE", "ICSE"}

\* the same for the first token of the name, which the group enters two characters in
StopsAtEndFirst(t) ==
  t \in {"This", "is", "to", "that", "Sharma", "Roll", "No.", "12345678", "Name", "DEVI", "SURESH", "SCHOOL", "EXAMINATION,", "2024", "Result", "PASS", "FAIL", "184", "002", "041", "086", "087", "402", "436", "999", "LANG", "LIT.", "STANDARD", "SOCIAL", "TECHNOLOGY", "068", "020", "088", "075", "095", "045", "EIGHTY", "FIVE", "NINETY", "A1", "A2", "B1", "C2", "ADDITIONAL", "CBSE", "ICSE"}

\* name.strip()
Strip(name) ==
  CASE name = " Mathematics " -> "Mathematics"
    [] name = " Science " -> "Science"
    [] name = "water security " -> "water security"
    [] OTHER -> name

\* canonical_subject_name("", name): the alias patterns, then name.title()
AliasName(name) ==
  CASE name \in {" Science ", "SCIENCE"} -> "Science"
    [] name \in {"English"} -> "English Language & Literature"
    [] name \in {"NCC"} -> "National Cadet Corps"
    [] OTHER -> name

\* " ".join(words) of the name words of a row
JoinWords(ws) ==
  CASE ws = <<"NCC">> -> "NCC"
    [] ws = <<"SCIENCE">> -> "SCIENCE"
    [] OTHER -> ""

\* ------------------------------------------------------------------------
\* cbse_validator.py: subject master data and row parser
\* ------------------------------------------------------------------------

PyFalse == [k |-> "bool", n |-> 0, w |-> <<>>]

_CODE_TO_NAME ==
  [c \in {"001", "002", "003", "004", "005", "006", "007", "008", "009", "010", "011", "012",
          "013", "014", "015", "018", "019", "020", "022", "031", "041", "241", "042", "049",
          "054", "064", "065", "066", "067", "084", "085", "086", "087", "119", "122", "165",
          "184", "402", "404", "417", "436"} |->
     CASE c \in {"001", "165"} -> "Hindi Course-A"
       [] c \in {"002", "085"} -> "Hindi Course-B"
       [] c = "003" -> "Urdu Course-A"
       [] c = "004" -> "Punjabi"
       [] c = "005" -> "Bengali"
       [] c = "006" -> "Tamil"
       [] c = "007" -> "Telugu"
       [] c = "008" -> "Sindhi"
       [] c = "009" -> "Marathi"
       [] c = "010" -> "Gujarati"
       [] c = "011" -> "Manipuri"
       [] c = "012" -> "Malayalam"
       [] c = "013" -> "Odia"
       [] c = "014" -> "Assamese"
       [] c = "015" -> "Kannada"
       [] c = "018" -> "French"
       [] c = "019" -> "German"
       [] c = "020" -> "Russian"
       [] c = "022" -> "Nepali"
       [] c = "031" -> "English Communicative"
       [] c = "041" -> "Mathematics Standard"
       [] c = "241" -> "Mathematics Basic"
       [] c \in {"042", "086"} -> "Science"
       [] c = "049" -> "Painting"
       [] c = "054" -> "Elements of Book Keeping & Accountancy"
       [] c = "064" -> "Home Science"
       [] c = "065" -> "Computer Applications"
       [] c = "066" -> "Elements of Business"
       [] c \in {"067", "122"} -> "Sanskrit"
       [] c \in {"084", "184"} -> "English Language & Literature"
       [] c = "087" -> "Social Science"
       [] c = "119" -> "Sanskrit (Communicative)"
       [] c = "402" -> "Information Technology"
       [] c \in {"404", "417"} -> "Artificial Intelligence"
       [] c = "436" -> "National Cadet Corps"]

_GRADE_ONLY_SUBJECTS ==
  {"national cadet corps", "work experience", "art education",
   "health & physical education", "health and physical education"}

_ADDITIONAL_CODES == {"402", "404", "417", "049", "064", "065", "066", "054", "436"}

_GRADE_BANDS ==
  <<  [lo |-> 91, hi |-> 100, grade |-> "A1"], [lo |-> 81, hi |-> 90, grade |-> "A2"],
      [lo |-> 71, hi |-> 80, grade |-> "B1"], [lo |-> 61, hi |-> 70, grade |-> "B2"],
      [lo |-> 51, hi |-> 60, grade |-> "C1"], [lo |-> 41, hi |-> 50, grade |-> "C2"],
      [lo |-> 33, hi |-> 40, grade |-> "D"], [lo |-> 21, hi |-> 32, grade |-> "E1"],
      [lo |-> 0, hi |-> 20, grade |-> "E2"]  >>

_VALID_GRADES == {"A1", "A2", "B1", "B2", "C1", "C2", "D", "E1", "E2", "E"}

marks_to_grade(marks) ==
  LET hit == {b \in 1..Len(_GRADE_BANDS) : _GRADE_BANDS[b].lo <= marks /\ marks <= _GRADE_BANDS[b].hi}
  IN  IF hit = {} THEN "E2" ELSE _GRADE_BANDS[Min(hit)].grade

\* the index of the grade's band, 0 for None
grade_to_marks_range(grade) ==
  FirstOf({b \in 1..Len(_GRADE_BANDS) : _GRADE_BANDS[b].grade = grade})

\* code lookup, then the alias patterns, then title case
canonical_subject_name(code, ocr_name) ==
  IF code \in DOMAIN _CODE_TO_NAME THEN _CODE_TO_NAME[code] ELSE AliasName(Strip(ocr_name))

\* a (\d{2,3}) column between \s+: a token of two or three digits; -1 otherwise
Marks23(tok) ==
  IF AllDigits(tok) /\ TokLen(tok) \in {2, 3} THEN IntOf(DigitPrefix(tok)) ELSE -1

\* the subject-name group on the tokens a..b of a line: a letter first, then
\* name characters and blanks, at least two characters
NameGroup(L, a, b) ==
  /\ a <= b /\ b <= Len(L)
  /\ LetterFirst(L[a])
  /\ \A j \in a..b : NameChars(L[j])
  /\ End(L, b) - Start(L, a) >= 2

\* the marks-in-words group ([A-Z][A-Z\s]+?) on the tokens a..b
WordsGroup(L, a, b) ==
  /\ a <= b /\ b <= Len(L)
  /\ \A j \in a..b : LettersOnly(L[j])
  /\ End(L, b) - Start(L, a) >= 2

\* the match a search returns among the candidates <<code token, last name
\* token, last words token>>: the leftmost code; the first name end the lazy
\* name group tries (it steps over a token end when a later end can match);
\* the shortest words group
Leftmost(L, S) ==
  LET c == Min({m[1] : m \in S})
      ends == {m[2] : m \in {o \in S : o[1] = c}}
      b == Min({e \in ends : \/ e = Max(ends)
                              \/ IF e = c + 1 THEN StopsAtEndFirst(L[e]) ELSE StopsAtEnd(L[e])})
  IN  <<c, b, Min({m[3] : m \in {o \in S : o[1] = c /\ o[2] = b}})>>

\* _PAT_A.search(line): code, name, three marks columns, words, grade
MatchesA(L) ==
  {m \in (1..Len(L)) \X (1..Len(L)) \X (1..Len(L)) :
     /\ CodeTail(L[m[1]]) # ""
     /\ NameGroup(L, m[1] + 1, m[2])
     /\ m[2] + 3 <= Len(L)
     /\ \A j \in 1..3 : Marks23(L[m[2] + j]) >= 0
     /\ WordsGroup(L, m[2] + 4, m[3])
     /\ m[3] + 1 <= Len(L)
     /\ Grade9Head(L[m[3] + 1]) # ""}

\* _PAT_B.search(line): code, name, one marks column, words, grade
MatchesB(L) ==
  {m \in (1..Len(L)) \X (1..Len(L)) \X (1..Len(L)) :
     /\ CodeTail(L[m[1]]) # ""
     /\ NameGroup(L, m[1] + 1, m[2])
     /\ m[2] + 1 <= Len(L)
     /\ Marks23(L[m[2] + 1]) >= 0
     /\ WordsGroup(L, m[2] + 2, m[3])
     /\ m[3] + 1 <= Len(L)
     /\ Grade9Head(L[m[3] + 1]) # ""}

\* _PAT_C.search(line): code, name, grade letter
MatchesC(L) ==
  {m \in (1..Len(L)) \X (1..Len(L)) \X {0} :
     /\ CodeTail(L[m[1]]) # ""
     /\ NameGroup(L, m[1] + 1, m[2])
     /\ m[2] + 1 <= Len(L)
     /\ GradeCHead(L[m[2] + 1]) # ""}

CbseRow(code, name, theory, ia_pr, total, max, grade, additional) ==
  [subject_code |-> PyStr(<<code>>), subject_name |-> name, theory_marks |-> theory,
   ia_pr_marks |-> ia_pr, marks_obtained |-> total, max_marks |-> max,
   grade |-> PyStr(<<grade>>), _is_additional |-> IF additional THEN PyTrue ELSE PyFalse]

\* the name group of a match, as the string the source strips and looks up
NameRaw(L, m) == JoinWords(SubSeq(L, m[1] + 1, m[2]))

\* the loop body of extract_subjects_from_raw_text for line k and the lines
\* after it; acc holds subjects, seen_codes and is_additional_section
RECURSIVE ParseLines(_, _, _)
ParseLines(t, k, acc) ==
  IF k > Len(t) THEN acc.subjects
  ELSE LET L == t[k]
           skip == ParseLines(t, k + 1, acc)
           keep(code, row) ==
             IF code \in acc.seen_codes THEN skip
             ELSE ParseLines(t, k + 1, [acc EXCEPT !.subjects = Append(@, row),
                                                   !.seen_codes = @ \cup {code}])
       IN  IF L = <<>> THEN skip
           ELSE IF HasPhrase(L, <<"ADDITIONAL", "SUBJECT">>)
           THEN ParseLines(t, k + 1, [acc EXCEPT !.is_additional_section = TRUE])
           ELSE IF MatchesA(L) # {}
           THEN LET m == Leftmost(L, MatchesA(L))
                    code == CodeTail(L[m[1]])
                    total == Marks23(L[m[2] + 3])
                    g == Grade9Head(L[m[3] + 1])
                    grade == IF g \notin _VALID_GRADES THEN marks_to_grade(total) ELSE g
                IN  keep(code, CbseRow(code, canonical_subject_name(code, NameRaw(L, m)),
                                       PyInt(Marks23(L[m[2] + 1])), PyInt(Marks23(L[m[2] + 2])),
                                       PyInt(total), PyInt(100), grade,
                                       acc.is_additional_section \/ code \in _ADDITIONAL_CODES))
           ELSE IF MatchesB(L) # {}
           THEN LET m == Leftmost(L, MatchesB(L))
                    code == CodeTail(L[m[1]])
                    total == Marks23(L[m[2] + 1])
                    g == Grade9Head(L[m[3] + 1])
                    grade == IF g \notin _VALID_GRADES THEN marks_to_grade(total) ELSE g
                IN  keep(code, CbseRow(code, canonical_subject_name(code, NameRaw(L, m)),
                                       None, None, PyInt(total), PyInt(100), grade,
                                       acc.is_additional_section \/ code \in _ADDITIONAL_CODES))
           ELSE IF MatchesC(L) # {}
           THEN LET m == Leftmost(L, MatchesC(L))
                    code == CodeTail(L[m[1]])
                    cname == canonical_subject_name(code, NameRaw(L, m))
                IN  IF LowerStrip(cname) \notin _GRADE_ONLY_SUBJECTS THEN skip
                    ELSE keep(code, CbseRow(code, cname, None, None, None, None,
                                            GradeCHead(L[m[2] + 1]), TRUE))
           ELSE skip

\* cbse_validator.extract_subjects_from_raw_text: the rows of the lines of the
\* raw text, or none when fewer than four were found
cbse_extract_subjects_from_raw_text(t) ==
  LET subjects == ParseLines(t, 1, [subjects |-> <<>>, seen_codes |-> {},
                                    is_additional_section |-> FALSE])
  IN  IF Len(subjects) >= 4 THEN subjects ELSE <<>>

\* ------------------------------------------------------------------------
\* cbse_validator.py: name cleaning and scalar field extractors
\* ------------------------------------------------------------------------

\* the raw text as one run of tokens; the texts have no blank lines
RECURSIVE Flatten(_)
Flatten(t) == IF t = <<>> THEN <<>> ELSE Head(t) \o Flatten(Tail(t))

\* the tokens of the run that a newline follows
LineEnds(t) == {Len(Flatten(SubSeq(t, 1, l))) : l \in 1..(Len(t) - 1)}

\* len(" ".join(words))
JoinLen(ws) == IF ws = <<>> THEN 0 ELSE End(ws, Len(ws))

\* _clean_name_field on the words of a value; nl holds the words a newline
\* follows. _NAME_NOISE_RE cuts from the first noise word that has a word
\* before it and no newline after it; then only the all-caps words are kept.
_clean_name_field(ws, nl) ==
  LET cuts == {i \in 2..Len(ws) : NoiseWord(ws[i]) /\ \A j \in i..(Len(ws) - 1) : j \notin nl}
      kept == IF cuts = {} THEN ws ELSE SubSeq(ws, 1, Min(cuts) - 1)
  IN  SelectSeq(kept, AllCaps)

\* the token is Mother / Mother's; Father / Father's / Guardian / Guardian's
IsMother(tok) == LetterPrefix(tok) \in {"Mother", "MOTHER"}

IsFather(tok) == LetterPrefix(tok) \in {"Father", "FATHER", "Guardian", "GUARDIAN"}

\* a lazy group ([A-Z][A-Za-z\s]{lo,hi}?) on the tokens j..k of the run: whole
\* words of letters, extra blanks taken after the last one
LazyGroup(F, j, k, lo, hi, extra) ==
  /\ j <= k /\ k <= Len(F)
  /\ \A x \in j..k : LettersOnly(F[x])
  /\ End(F, k) - Start(F, j) + extra >= lo + 1
  /\ End(F, k) - Start(F, j) + extra <= hi + 1

\* a greedy group ([A-Z][A-Za-z\s]{1,hi}) from token j on: the words of letters
\* that follow, then the letters the next token starts with; <<>> for no match.
\* The groups of the texts stay under hi characters.
GreedyGroup(F, j, hi) ==
  IF j > Len(F) \/ LetterPrefix(F[j]) = "" THEN <<>>
  ELSE LET stops == {x \in j..Len(F) : ~LettersOnly(F[x])}
           k == IF stops = {} THEN Len(F) + 1 ELSE Min(stops)
           part == IF k <= Len(F) /\ LetterPrefix(F[k]) # "" THEN <<LetterPrefix(F[k])>> ELSE <<>>
           ws == SubSeq(F, j, k - 1) \o part
           blank == IF k <= Len(F) /\ part = <<>> THEN 1 ELSE 0
       IN  IF JoinLen(ws) + blank >= 2 THEN ws ELSE <<>>

\* the newlines inside a group of n words that starts at token j
GroupBreaks(t, j, n) == {x \in 1..n : (j + x - 1) \in LineEnds(t)}

\* extract_student_name: "certify that NAME Roll No", cleaned; <<>> for None
extract_student_name(t) ==
  LET F == Flatten(t)
      hits == {m \in (1..Len(F)) \X (1..Len(F)) :
                 /\ PhraseAt(F, <<"CERTIFY", "THAT">>, m[1])
                 /\ LazyGroup(F, m[1] + 2, m[2], 4, 80, 0)
                 /\ PhraseAt(F, <<"ROLL">>, m[2] + 1)
                 /\ m[2] + 2 <= Len(F) /\ LetterPrefix(F[m[2] + 2]) \in {"No", "NO"}}
  IN  IF hits = {} THEN <<>>
      ELSE LET i == Min({m[1] : m \in hits})
               k == Min({m[2] : m \in {h \in hits : h[1] = i}})
               name == _clean_name_field(SubSeq(F, i + 2, k), GroupBreaks(t, i + 2, k - i - 1))
           IN  IF JoinLen(name) >= 3 THEN name ELSE <<>>

\* the words that start and that stop the name of a parent
ParentHead(parent, tok) == IF parent = "mother" THEN IsMother(tok) ELSE IsFather(tok)

MotherStop(tok) == IsFather(tok) \/ LetterPrefix(tok) \in {"Date", "DATE"}

FatherStop(tok) == LetterPrefix(tok) \in {"Date", "DATE", "School", "SCHOOL"}

ParentStop(parent, tok) == IF parent = "mother" THEN MotherStop(tok) ELSE FatherStop(tok)

\* the first pattern of extract_parent_name: a lazy group that ends at a
\* newline or before one of the stop words; <<>> for no match
ParentLazy(t, parent, hi) ==
  LET F == Flatten(t)
      Group(hits) ==
        IF hits = {} THEN <<>>
        ELSE LET i == Min({m[1] : m \in hits})
             IN  SubSeq(F, i + 2, Min({m[2] : m \in {h \in hits : h[1] = i}}))
  IN  Group({m \in (1..Len(F)) \X (1..Len(F)) :
               /\ ParentHead(parent, F[m[1]])
               /\ PhraseAt(F, <<"NAME">>, m[1] + 1)
               /\ \/ m[2] \in LineEnds(t) /\ LazyGroup(F, m[1] + 2, m[2], 1, hi, 0)
                  \/ /\ m[2] + 1 <= Len(F)
                     /\ ParentStop(parent, F[m[2] + 1])
                     /\ LazyGroup(F, m[1] + 2, m[2], 1, hi, 1)})

\* the second pattern: the greedy group after the first "<parent> Name"
ParentGreedy(t, parent, hi) ==
  LET F == Flatten(t)
      Group(i, g) == [ws |-> g, nl |-> GroupBreaks(t, i + 2, Len(g))]
      First(hits) ==
        IF hits = {} THEN [ws |-> <<>>, nl |-> {}]
        ELSE Group(Min(hits), GreedyGroup(F, Min(hits) + 2, hi))
  IN  First({i \in 1..Len(F) :
               /\ ParentHead(parent, F[i])
               /\ PhraseAt(F, <<"NAME">>, i + 1)
               /\ GreedyGroup(F, i + 2, hi) # <<>>})

\* extract_parent_name: the first pattern whose cleaned group has two
\* characters or more; the first word of it for the mother; <<>> for None
extract_parent_name(t, parent) ==
  LET Clean(g) == _clean_name_field(g.ws, g.nl)
      Word(val) == IF val # <<>> /\ parent = "mother" THEN <<val[1]>> ELSE val
      Pick(v1, v2) ==
        Word(IF JoinLen(v1) >= 2 THEN v1 ELSE IF JoinLen(v2) >= 2 THEN v2 ELSE <<>>)
  IN  Pick(_clean_name_field(ParentLazy(t, parent, 60), {}),
           Clean(ParentGreedy(t, parent, IF parent = "mother" THEN 50 ELSE 60)))

\* extract_roll_number: seven to nine digits after "Roll No."; "" for None
extract_roll_number(t) ==
  LET F == Flatten(t)
      hits == {i \in 1..(Len(F) - 2) : /\ PhraseAt(F, <<"ROLL">>, i)
                                       /\ F[i + 1] \in {"No", "NO", "No.", "NO."}
                                       /\ RollDigits(F[i + 2]) # ""}
  IN  IF hits = {} THEN "" ELSE RollDigits(F[Min(hits) + 2])

IsExamination(tok) == LetterPrefix(tok) \in {"EXAMINATION", "Examination"}

\* extract_exam_year: the four digits after "SECONDARY SCHOOL EXAMINATION,",
\* else after "EXAMINATION,"; "" for None
extract_exam_year(t) ==
  LET F == Flatten(t)
      full == {i \in 3..(Len(F) - 1) : /\ PhraseAt(F, <<"SECONDARY", "SCHOOL">>, i - 2)
                                       /\ IsExamination(F[i]) /\ Year4(F[i + 1]) # ""}
      short == {i \in 1..(Len(F) - 1) : IsExamination(F[i]) /\ Year4(F[i + 1]) # ""}
  IN  IF full # {} THEN Year4(F[Min(full) + 1])
      ELSE IF short # {} THEN Year4(F[Min(short) + 1])
      ELSE ""

\* extract_result: the word after "Result", else any PASS, else any FAIL, else
\* "PASS"
extract_result(t) ==
  LET F == Flatten(t)
      hits == {i \in 1..(Len(F) - 1) : PhraseAt(F, <<"RESULT">>, i) /\ ResultHead(F[i + 1]) # ""}
  IN  IF hits # {} THEN ResultHead(F[Min(hits) + 1])
      ELSE IF \E i \in 1..Len(F) : ResultHead(F[i]) = "PASS" THEN "PASS"
      ELSE IF \E i \in 1..Len(F) : ResultHead(F[i]) = "FAIL" THEN "FAIL"
      ELSE "PASS"

\* ------------------------------------------------------------------------
\* cbse_validator.py: the validator
\* ------------------------------------------------------------------------

\* data.get(key) or "" as words
StrWords(v) == IF v.k = "str" THEN v.w ELSE <<>>

\* words or None
OptStr(ws) == IF ws = <<>> THEN None ELSE PyStr(ws)

\* subj.get("subject_code", "") as the key looked up in the tables
CodeOf(subj) ==
  IF subj.subject_code.k = "str" /\ Len(subj.subject_code.w) = 1
  THEN subj.subject_code.w[1] ELSE ""

\* value in _VALID_GRADES
InValidGrades(g) == g.k = "str" /\ Len(g.w) = 1 /\ g.w[1] \in _VALID_GRADES

\* (a variant for comparison) the marks are left as the row has them
_keep_marks_against_grade(subj) == subj

\* marks outside the band of the grade become the midpoint of the band
_fix_marks_against_grade(subj) ==
  LET grade == Get(subj.grade)
      mo == Get(subj.marks_obtained)
      band == IF InValidGrades(grade) THEN grade_to_marks_range(grade.w[1]) ELSE 0
  IN  IF mo = None \/ ~InValidGrades(grade) \/ band = 0 THEN subj
      ELSE IF _GRADE_BANDS[band].lo <= mo.n /\ mo.n <= _GRADE_BANDS[band].hi THEN subj
      ELSE [subj EXCEPT !.marks_obtained =
                          PyInt((_GRADE_BANDS[band].lo + _GRADE_BANDS[band].hi) \div 2)]

\* the body of the fallback loop for one row of the LLM that is not a
\* duplicate
FallbackRow(subj) ==
  LET name == Strip(subj.subject_name)
      named == [subj EXCEPT !.subject_name = canonical_subject_name(CodeOf(subj), name)]
      mo == ToInt(Get(subj.marks_obtained))
      g == Get(subj.grade)
      ruled ==
        IF LowerStrip(name) \in _GRADE_ONLY_SUBJECTS
        THEN [named EXCEPT !.marks_obtained = None,
                           !.max_marks = None,
                           !.grade = IF InValidGrades(g) THEN @ ELSE PyStr(<<"A">>)]
        ELSE _fix_marks_against_grade(
               [named EXCEPT !.marks_obtained = mo,
                             !.max_marks = PyInt(100),
                             !.grade = IF InValidGrades(g) THEN @
                                       ELSE IF mo # None THEN PyStr(<<marks_to_grade(mo.n)>>)
                                       ELSE None])
  IN  [ruled EXCEPT !._is_additional =
                      IF @ # Absent THEN @
                      ELSE IF CodeOf(subj) \in _ADDITIONAL_CODES THEN PyTrue ELSE PyFalse]

\* the fallback loop over the rows of the LLM from row k on
RECURSIVE FallbackRows(_, _, _, _)
FallbackRows(rows, k, seen, cleaned_list) ==
  IF k > Len(rows) THEN cleaned_list
  ELSE LET name_lower == LowerStrip(rows[k].subject_name)
       IN  IF name_lower \in seen THEN FallbackRows(rows, k + 1, seen, cleaned_list)
           ELSE FallbackRows(rows, k + 1, seen \cup {name_lower},
                             Append(cleaned_list, FallbackRow(rows[k])))

\* subj.pop("_is_additional", False) or the code is an additional code
IsAdditional(subj) == Truthy(subj._is_additional) \/ CodeOf(subj) \in _ADDITIONAL_CODES

\* the rows of one side of the split, the flag popped
SplitRows(rows, additional) ==
  LET keep == {i \in 1..Len(rows) : IsAdditional(rows[i]) = additional}
      side == SelectIdx(rows, keep)
  IN  [i \in 1..Len(side) |-> [side[i] EXCEPT !._is_additional = Absent]]

validate_and_fix_cbse_marksheet(data, t) ==
  LET \* 1. scalar fields: the value of the text, else the cleaned LLM value
      Name(raw_name, llm_name) ==
        IF raw_name # <<>> THEN PyStr(raw_name)
        ELSE OptStr(_clean_name_field(StrWords(llm_name), {}))
      Mother(raw_mother, cleaned) ==
        IF raw_mother # <<>> THEN PyStr(raw_mother)
        ELSE IF cleaned # <<>> THEN PyStr(<<cleaned[1]>>) ELSE None
      Roll(raw_roll) ==
        IF raw_roll # "" THEN PyStr(<<raw_roll>>)
        ELSE IF ~Truthy(data.roll_number) THEN None ELSE data.roll_number
      Year(raw_year, llm_year) == IF raw_year # "" THEN PyStr(<<raw_year>>) ELSE llm_year
      \* 2. the fields a CBSE marksheet does not print are deleted
      scalars ==
        [data EXCEPT
           !.student_name = Name(extract_student_name(t), @),
           !.mother_name = Mother(extract_parent_name(t, "mother"),
                                  _clean_name_field(StrWords(@), {})),
           !.father_name = Name(extract_parent_name(t, "father"), @),
           !.roll_number = Roll(extract_roll_number(t)),
           !.exam_year = Year(extract_exam_year(t), @),
           !.result = PyStr(<<extract_result(t)>>),
           !.board = PyStr(<<"CBSE">>),
           !.document_type = PyStr(<<"marksheet">>),
           !.date_of_birth = Absent,
           !.total_marks_obtained = Absent,
           !.total_max_marks = Absent,
           !.percentage = Absent]
      \* 3. subjects: the rows of the text, else the rows of the LLM
      Subjects(parsed) ==
        IF parsed # <<>> THEN parsed
        ELSE FallbackRows(RowsOf(data.subjects), 1, {}, <<>>)
      \* 4. split main vs additional
      Split(d, subjects) ==
        [d EXCEPT
           !.subjects = PyList(SplitRows(subjects, FALSE)),
           !.additional_subjects = PyList(SplitRows(subjects, TRUE))]
  IN  Split(scalars, Subjects(cbse_extract_subjects_from_raw_text(t)))

\* ------------------------------------------------------------------------
\* extraction/llama_json_extractor.py: the validation dispatcher
\* ------------------------------------------------------------------------

\* a nested dict, as a value
PyDict(rec) == [k |-> "dict", n |-> 0, w |-> rec]

\* str(value).strip() as a word sequence, for the strings and the value True (the
\* values the records of this model hold under a name key)
StrOf(v) == IF v = PyTrue THEN <<"True">> ELSE StrWords(v)

\* what a call does: it returns a value, or raises an exception whose str() is error
Return(v) == [raised |-> FALSE, kind |-> "", error |-> <<>>, value |-> v]

Raise(kind, error) == [raised |-> TRUE, kind |-> kind, error |-> error, value |-> EmptyRecord]

\* the parent_name values of the pass-book records
ParentNames ==
  {<<"True">>, <<"RAM", "KUMAR">>, <<"RAM", "NAGAR">>, <<"RK">>, <<"R@M", "#1$", "K">>, <<"SURESH", "KUMAR", "SHARMA">>, <<"RAM", "123456">>, <<"ANITA", "DEVI">>, <<"A1B2", "C3D4">>, <<"RAMESH", "KUMAR", "SHARMA", "12345">>}

\* the address values of the pass-book records
Addresses ==
  {<<"12", "MG", "ROAD", "PUNE">>, <<"C/O", "SURESH", "KUMAR", "SHARMA", "PUNE">>, <<"W/O", "RAM", "KUMAR", "PUNE">>}

\* any(keyword in parent_name_upper for keyword in location_keywords)
has_location(ws) ==
  ws \in {<<"RAM", "NAGAR">>}

\* len(parent_name_value) < 4
is_too_short(ws) ==
  ws \in {<<"RK">>}

\* more than 30% of the characters are not letters or blanks
has_too_many_special_chars(ws) ==
  ws \in {<<"R@M", "#1$", "K">>, <<"RAM", "123456">>, <<"A1B2", "C3D4">>}

\* five digits in a row, or three characters in a row that are not letters or blanks
has_garbage(ws) ==
  ws \in {<<"R@M", "#1$", "K">>, <<"RAM", "123456">>, <<"RAMESH", "KUMAR", "SHARMA", "12345">>}

\* len(parent_name_value) > 10
LongName(ws) ==
  ws \in {<<"SURESH", "KUMAR", "SHARMA">>, <<"RAMESH", "KUMAR", "SHARMA", "12345">>}

\* parent_name_upper in address.upper()
InAddress(ws, address) ==
  <<ws, address>> \in {<<<<"RAM", "KUMAR">>, <<"W/O", "RAM", "KUMAR", "PUNE">>>>, <<<<"SURESH", "KUMAR", "SHARMA">>, <<"C/O", "SURESH", "KUMAR", "SHARMA", "PUNE">>>>}

\* The text of an income certificate is a sequence of lines of characters, and
\* an income_value is the sequence of its characters.  A Devanagari digit is
\* written dev0 .. dev9
DevanagariDigits == <<"dev0", "dev1", "dev2", "dev3", "dev4", "dev5", "dev6", "dev7", "dev8", "dev9">>

AsciiDigits == <<"0", "1", "2", "3", "4", "5", "6", "7", "8", "9">>

\* the characters of the text: its lines joined by newlines
RECURSIVE JoinLines(_)
JoinLines(t) ==
  IF t = <<>> THEN <<>>
  ELSE IF Len(t) = 1 THEN t[1]
  ELSE t[1] \o <<"\n">> \o JoinLines(Tail(t))

\* s.translate(devanagari_to_english)
Translate(s) ==
  [i \in 1..Len(s) |->
     IF \E d \in 1..10 : DevanagariDigits[d] = s[i]
     THEN AsciiDigits[CHOOSE d \in 1..10 : DevanagariDigits[d] = s[i]]
     ELSE s[i]]

\* (a variant for comparison) the letters o and O of the text are left as they are
KeepO(s) == s

\* raw_text.replace('o', dev0).replace('O', dev0)
OtoZero(s) == [i \in 1..Len(s) |-> IF s[i] \in {"o", "O"} THEN "dev0" ELSE s[i]]

\* s.replace(',', '').replace('.', '').replace(' ', '')
Unseparated(s) == SelectSeq(s, LAMBDA c : c \notin {",", ".", " "})

\* needle in hay
InStr(needle, hay) ==
  \E i \in 0..(Len(hay) - Len(needle)) : SubSeq(hay, i + 1, i + Len(needle)) = needle

\* re.search of the year line in raw_text: 202 and one of 3, 4, 5 in Devanagari
\* digits, the fewest characters of the line up to the next Devanagari 202, one
\* of 4, 5, 6 if it follows, and at most 100 more characters of the line.  The
\* first and the last position of the match, <<0, 0>> without a match
YearLine(s) ==
  LET year(i) == i + 2 <= Len(s) /\ SubSeq(s, i, i + 2) = <<"dev2", "dev0", "dev2">>
      second(i) == {j \in (i + 4)..Len(s) :
                      /\ year(j)
                      /\ \A k \in (i + 4)..(j - 1) : s[k] # "\n"}
      starts == {i \in 1..Len(s) :
                   /\ year(i)
                   /\ i + 3 <= Len(s) /\ s[i + 3] \in {"dev3", "dev4", "dev5"}
                   /\ second(i) # {}}
      LineEnd(j) ==
        LET from == IF j + 3 <= Len(s) /\ s[j + 3] \in {"dev4", "dev5", "dev6"} THEN j + 3 ELSE j + 2
            stops == {k \in (from + 1)..(from + 100) : k > Len(s) \/ s[k] = "\n"}
        IN  IF stops = {} THEN from + 100 ELSE Min(stops) - 1
  IN  IF starts = {} THEN <<0, 0>>
      ELSE <<Min(starts), LineEnd(Min(second(Min(starts))))>>

\* re.findall on year_line: the longest runs of digits of either script, commas,
\* periods and hyphens
NumberRuns(s) ==
  LET ink(i) == \/ \E d \in 1..10 : s[i] \in {DevanagariDigits[d], AsciiDigits[d]}
                \/ s[i] \in {",", ".", "-"}
  IN  {SubSeq(s, i, j) : <<i, j>> \in
         {p \in (1..Len(s)) \X (1..Len(s)) :
            /\ p[1] <= p[2]
            /\ \A k \in p[1]..p[2] : ink(k)
            /\ p[1] = 1 \/ ~ink(p[1] - 1)
            /\ p[2] = Len(s) \/ ~ink(p[2] + 1)}}

\* the fuzzy match of the income with a number of the year line
FuzzyMatch(income_normalized, num) ==
  LET num_normalized == SelectSeq(Translate(num), LAMBDA c : c \notin {",", "."})
      first5(x) == SubSeq(x, 1, Min({5, Len(x)}))
  IN  /\ Len(num_normalized) > 3
      /\ \/ income_normalized = num_normalized
         \/ InStr(income_normalized, num_normalized)
         \/ InStr(num_normalized, income_normalized)
         \/ first5(income_normalized) = first5(num_normalized)

\* (a variant for comparison) only the first check, and the text normalised as
\* the value is
found_normalized(income_val, s) ==
  InStr(Unseparated(Translate(income_val)), Unseparated(Translate(s)))

\* found_in_text of the income_value check: the normalised digits stand in the
\* normalised text, or in the year line, or a number of the year line is alike
found_in_text(income_val, s) ==
  LET income_normalized == Unseparated(Translate(income_val))
      Line(m) == SubSeq(s, m[1], m[2])
      InYearLine(year_line) ==
        \/ InStr(income_normalized, Unseparated(Translate(year_line)))
        \/ \E num \in NumberRuns(year_line) : FuzzyMatch(income_normalized, num)
  IN  \/ InStr(income_normalized, Unseparated(Translate(OtoZero(s))))
      \/ YearLine(s)[1] # 0 /\ InYearLine(Line(YearLine(s)))

\* if raw_text and data.get('income_value'): the value is kept when found,
\* else None
CheckIncomeValue(v, t) ==
  IF t # <<>> /\ Truthy(v) /\ ~found_in_text(StrOf(v), JoinLines(t)) THEN None ELSE v

\* _cleanup_income_certificate, on records without income_in_word and on
\* Latin-script names and texts without a student indicator: no Devanagari
\* prefix or suffix occurs, so each truthy name becomes str(name).strip()
_cleanup_income_certificate(data, t) ==
  LET name(v) == IF Truthy(v) THEN OptStr(StrOf(v)) ELSE v
  IN  [data EXCEPT !.parent_name = name(data.parent_name),
                   !.student_name = name(data.student_name),
                   !.income_value = CheckIncomeValue(data.income_value, t)]

\* (a variant for comparison) a name with a run of digits or symbols passes
is_corrupted_no_garbage(ws) == is_too_short(ws) \/ has_too_many_special_chars(ws)

\* is_corrupted = is_too_short or has_too_many_special_chars or has_garbage
is_corrupted(ws) == is_too_short(ws) \/ has_too_many_special_chars(ws) \/ has_garbage(ws)

\* the pass-book branch of _validate_and_fix_extraction
ValidateParentName(data) ==
  IF ~Truthy(data.parent_name) THEN Return(data)
  ELSE
    LET parent_name_value == StrOf(data.parent_name)
        address == IF data.address = Absent THEN PyStr(<<>>) ELSE data.address
        rejected == [data EXCEPT !.parent_name = None]
    IN  IF parent_name_value = <<>> THEN Return(rejected)
        ELSE IF Truthy(address) /\ LongName(parent_name_value) /\ address.k # "str"
        THEN Raise("AttributeError", <<"'bool'", "object", "has", "no", "attribute", "'upper'">>)
        ELSE
          LET in_address == /\ Truthy(address)
                            /\ LongName(parent_name_value)
                            /\ InAddress(parent_name_value, address.w)
          IN  IF \/ has_location(parent_name_value)
                 \/ in_address
                 \/ is_corrupted(parent_name_value)
              THEN Return(rejected)
              ELSE Return(data)

\* (a variant for comparison) the parent_name check is made for every document
\* type
_validate_every_type(data, t) ==
  ValidateParentName(IF data.document_type = PyStr(<<"income_certificate">>)
                     THEN _cleanup_income_certificate(data, t)
                     ELSE data)

\* _validate_and_fix_extraction: the income-certificate cleanup, then the pass-book
\* parent_name check; every other document type is returned as it came
_validate_and_fix_extraction(data, t) ==
  LET cleaned == IF data.document_type = PyStr(<<"income_certificate">>)
                 THEN _cleanup_income_certificate(data, t)
                 ELSE data
  IN  IF cleaned.document_type \notin {PyStr(<<"pass_book">>), PyStr(<<"passbook">>)}
      THEN Return(cleaned)
      ELSE ValidateParentName(cleaned)

\* ------------------------------------------------------------------------
\* extraction/llama_json_extractor.py: _parse_json_response.  A completion is a
\* sequence of lexemes, joined without separators
\* ------------------------------------------------------------------------

\* the lexemes of a completion; a name shows the text with an apostrophe for each
\* double quote and <fence> for three backticks
ResponseVocabulary ==
  {"'document_type': 'pass_book'", "'document_type': 'passbook'", "'document_type': 'marksheet'", "'document_type': 'aadhaar'", "'document_type': 'income_certificate'", "'parent_name': 'RAM KUMAR'", "'parent_name': 'RAM NAGAR'", "'parent_name': 'SURESH KUMAR SHARMA'", "'parent_name': null", "'address': 'C/O SURESH KUMAR SHARMA PUNE'", "'address': true", "'student_name': 'RAHUL KUMAR'", "'RAM KUMAR'", "null", "true", "'pass_book'", "<fence>json", "<fence>", "{", "}", "[", "]", ",", " ", "Here", "oops", "<600 characters of prose>"}

\* len(lexeme)
LexemeWidth(tok) ==
  CASE tok \in {"{", "}", "[", "]", ",", " "} -> 1
    [] tok \in {"<fence>"} -> 3
    [] tok \in {"null", "true", "Here", "oops"} -> 4
    [] tok \in {"<fence>json"} -> 7
    [] tok \in {"'RAM KUMAR'", "'pass_book'"} -> 11
    [] tok \in {"'address': true"} -> 15
    [] tok \in {"'parent_name': null"} -> 19
    [] tok \in {"'document_type': 'aadhaar'", "'parent_name': 'RAM KUMAR'", "'parent_name': 'RAM NAGAR'"} -> 26
    [] tok \in {"'document_type': 'passbook'"} -> 27
    [] tok \in {"'document_type': 'pass_book'", "'document_type': 'marksheet'"} -> 28
    [] tok \in {"'student_name': 'RAHUL KUMAR'"} -> 29
    [] tok \in {"'parent_name': 'SURESH KUMAR SHARMA'"} -> 36
    [] tok \in {"'document_type': 'income_certificate'"} -> 37
    [] tok \in {"'address': 'C/O SURESH KUMAR SHARMA PUNE'"} -> 41
    [] tok \in {"<600 characters of prose>"} -> 600

\* the lexemes that are a key with its value
IsMember(tok) ==
  tok \in {"'document_type': 'pass_book'", "'document_type': 'passbook'", "'document_type': 'marksheet'", "'document_type': 'aadhaar'", "'document_type': 'income_certificate'", "'parent_name': 'RAM KUMAR'", "'parent_name': 'RAM NAGAR'", "'parent_name': 'SURESH KUMAR SHARMA'", "'parent_name': null", "'address': 'C/O SURESH KUMAR SHARMA PUNE'", "'address': true", "'student_name': 'RAHUL KUMAR'"}

\* the key and the value json.loads reads from a member
Member(tok) ==
  CASE tok = "'document_type': 'pass_book'" -> [key |-> "document_type", val |-> PyStr(<<"pass_book">>)]
    [] tok = "'document_type': 'passbook'" -> [key |-> "document_type", val |-> PyStr(<<"passbook">>)]
    [] tok = "'document_type': 'marksheet'" -> [key |-> "document_type", val |-> PyStr(<<"marksheet">>)]
    [] tok = "'document_type': 'aadhaar'" -> [key |-> "document_type", val |-> PyStr(<<"aadhaar">>)]
    [] tok = "'document_type': 'income_certificate'" -> [key |-> "document_type", val |-> PyStr(<<"income_certificate">>)]
    [] tok = "'parent_name': 'RAM KUMAR'" -> [key |-> "parent_name", val |-> PyStr(<<"RAM", "KUMAR">>)]
    [] tok = "'parent_name': 'RAM NAGAR'" -> [key |-> "parent_name", val |-> PyStr(<<"RAM", "NAGAR">>)]
    [] tok = "'parent_name': 'SURESH KUMAR SHARMA'" -> [key |-> "parent_name", val |-> PyStr(<<"SURESH", "KUMAR", "SHARMA">>)]
    [] tok = "'parent_name': null" -> [key |-> "parent_name", val |-> None]
    [] tok = "'address': 'C/O SURESH KUMAR SHARMA PUNE'" -> [key |-> "address", val |-> PyStr(<<"C/O", "SURESH", "KUMAR", "SHARMA", "PUNE">>)]
    [] tok = "'address': true" -> [key |-> "address", val |-> PyTrue]
    [] tok = "'student_name': 'RAHUL KUMAR'" -> [key |-> "student_name", val |-> PyStr(<<"RAHUL", "KUMAR">>)]

\* the lexemes that are a JSON value by themselves
IsAtom(tok) ==
  tok \in {"'RAM KUMAR'", "null", "true", "'pass_book'"}

\* the value json.loads reads from such a lexeme
Atom(tok) ==
  CASE tok = "'RAM KUMAR'" -> PyStr(<<"RAM", "KUMAR">>)
    [] tok = "null" -> None
    [] tok = "true" -> PyTrue
    [] tok = "'pass_book'" -> PyStr(<<"pass_book">>)

\* len(text)
RECURSIVE TextWidth(_)
TextWidth(s) == IF s = <<>> THEN 0 ELSE LexemeWidth(Head(s)) + TextWidth(Tail(s))

\* text[:n]: the whole lexemes that fit, and the number of characters taken from
\* the lexeme after them
PyText(toks, part) == [k |-> "text", n |-> part, w |-> toks]

Prefix(s, n) ==
  LET fit == Max({j \in 0..Len(s) : TextWidth(SubSeq(s, 1, j)) <= n})
  IN  PyText(SubSeq(s, 1, fit),
             IF fit = Len(s) THEN 0 ELSE n - TextWidth(SubSeq(s, 1, fit)))

\* str.strip()
StripText(s) ==
  LET inked == {j \in 1..Len(s) : s[j] # " "}
  IN  IF inked = {} THEN <<>> ELSE SubSeq(s, Min(inked), Max(inked))

\* the markdown fences are cut off: <fence>json or <fence> in front, <fence> behind
Unfence(s) ==
  LET front == IF s # <<>> /\ Head(s) \in {"<fence>json", "<fence>"} THEN Tail(s) ELSE s
  IN  IF front # <<>> /\ front[Len(front)] = "<fence>"
      THEN SubSeq(front, 1, Len(front) - 1)
      ELSE front

\* str.find and str.rfind of a one-character lexeme; 0 stands for -1
Find(s, c) == FirstOf({j \in 1..Len(s) : s[j] = c})

RFind(s, c) == IF \E j \in 1..Len(s) : s[j] = c THEN Max({j \in 1..Len(s) : s[j] = c}) ELSE 0

\* json.loads on the lexemes of a text: ok tells a value was read, next is the
\* position after it
JsonFail == [ok |-> FALSE, next |-> 0, val |-> None]

JsonRead(next, val) == [ok |-> TRUE, next |-> next, val |-> val]

RECURSIVE ParseValue(_, _), ParseMembers(_, _, _), ParseElements(_, _, _)
ParseValue(s, i) ==
  IF i > Len(s) THEN JsonFail
  ELSE IF IsAtom(s[i]) THEN JsonRead(i + 1, Atom(s[i]))
  ELSE IF s[i] = "{"
  THEN IF i + 1 <= Len(s) /\ s[i + 1] = "}"
       THEN JsonRead(i + 2, PyDict(EmptyRecord))
       ELSE ParseMembers(s, i + 1, EmptyRecord)
  ELSE IF s[i] = "["
  THEN IF i + 1 <= Len(s) /\ s[i + 1] = "]"
       THEN JsonRead(i + 2, PyList(<<>>))
       ELSE ParseElements(s, i + 1, <<>>)
  ELSE JsonFail

\* the members of an object, the first of which is expected at i; a key read
\* twice keeps the later value
ParseMembers(s, i, acc) ==
  IF i + 1 > Len(s) \/ ~IsMember(s[i]) THEN JsonFail
  ELSE LET more == [acc EXCEPT ![Member(s[i]).key] = Member(s[i]).val]
       IN  IF s[i + 1] = "}" THEN JsonRead(i + 2, PyDict(more))
           ELSE IF s[i + 1] = "," THEN ParseMembers(s, i + 2, more)
           ELSE JsonFail

\* the elements of an array, the first of which is expected at i
ParseElements(s, i, acc) ==
  LET elem == ParseValue(s, i)
  IN  IF ~elem.ok \/ elem.next > Len(s) THEN JsonFail
      ELSE IF s[elem.next] = "]" THEN JsonRead(elem.next + 1, PyList(Append(acc, elem.val)))
      ELSE IF s[elem.next] = "," THEN ParseElements(s, elem.next + 1, Append(acc, elem.val))
      ELSE JsonFail

\* json.loads(json_str): white space between the lexemes is skipped, and the
\* whole text has to be one value
json_loads(s) ==
  LET inked == SelectSeq(s, LAMBDA tok : tok # " ")
      read == ParseValue(inked, 1)
  IN  IF read.ok /\ read.next = Len(inked) + 1
      THEN Return(read.val)
      ELSE Raise("JSONDecodeError", <<"Expecting", "value">>)

\* list(get_schema_for_doc_type(doc_type).keys())
get_schema_for_doc_type(doc_type) ==
  CASE doc_type = "pass_book" ->
         <<"account_holder_name", "account_number", "parent_name", "address">>
    [] doc_type = "aadhaar" ->
         <<"document_type", "aadhaar_number", "name", "father_name", "mother_name",
           "date_of_birth", "gender", "address">>
    [] doc_type = "pan" ->
         <<"document_type", "pan_number", "name", "father_name", "date_of_birth">>
    [] doc_type = "income_certificate" ->
         <<"document_type", "parent_name", "student_name", "income_years", "address",
           "validity_date">>
    [] doc_type = "marksheet" ->
         <<"document_type", "student_name", "mother_name", "fathers_name", "exam_year",
           "subjects", "total_marks_obtained", "total_max_marks", "percentage", "result">>
    [] OTHER -> <<"document_type", "extracted_data">>

\* the dict built from an array: the schema keys in order, None past the array's end
FromArray(schema_keys, parsed_array) ==
  [f \in Fields |->
     IF \E i \in 1..Len(schema_keys) : schema_keys[i] = f
     THEN LET i == CHOOSE j \in 1..Len(schema_keys) : schema_keys[j] = f
          IN  IF i <= Len(parsed_array) THEN parsed_array[i] ELSE None
     ELSE Absent]

\* (a variant for comparison) the record is left without the hint
NoBackfill(parsed, doc_type) == parsed

\* if 'document_type' not in parsed: parsed['document_type'] = doc_type
Backfill(parsed, doc_type) ==
  IF parsed.document_type = Absent
  THEN [parsed EXCEPT !.document_type = PyStr(<<doc_type>>)]
  ELSE parsed

\* (a variant for comparison) the whole completion is read as one JSON object,
\* without cutting fences and without the search for braces
TryParseWhole(response, doc_type, t) ==
  LET Read(parsed) ==
        IF parsed.raised THEN parsed
        ELSE IF parsed.value.k = "dict"
        THEN _validate_and_fix_extraction(Backfill(parsed.value.w, doc_type), t)
        ELSE Raise("ValueError",
                   <<"No", "JSON", "object", "or", "array", "found", "in", "response">>)
  IN  Read(json_loads(response))

\* the body of the try statement of _parse_json_response
TryParse(response, doc_type, t) ==
  LET cleaned == StripText(Unfence(StripText(response)))
      start_obj == Find(cleaned, "{")
      end_obj == RFind(cleaned, "}")
      start_arr == Find(cleaned, "[")
      end_arr == RFind(cleaned, "]")
  IN  IF start_obj # 0 /\ end_obj # 0
      THEN LET parsed == json_loads(SubSeq(cleaned, start_obj, end_obj))
           IN  IF parsed.raised THEN parsed
               ELSE _validate_and_fix_extraction(Backfill(parsed.value.w, doc_type), t)
      ELSE IF start_arr # 0 /\ end_arr # 0
      THEN LET parsed_array == json_loads(SubSeq(cleaned, start_arr, end_arr))
           IN  IF parsed_array.raised THEN parsed_array
               ELSE _validate_and_fix_extraction(
                      Backfill(FromArray(get_schema_for_doc_type(doc_type),
                                         parsed_array.value.w), doc_type), t)
      ELSE Raise("ValueError",
                 <<"No", "JSON", "object", "or", "array", "found", "in", "response">>)

\* the error envelope of the two except clauses
Envelope(error, response, doc_type) ==
  [EmptyRecord EXCEPT !.error = PyStr(error),
                      !.document_type = PyStr(<<doc_type>>),
                      !.raw_response = Prefix(response, 1000)]

\* (a variant for comparison) an exception handler that lets everything but a JSON syntax error pass
ExceptJSONOnly(tried, response, doc_type) ==
  IF tried.raised /\ tried.kind = "JSONDecodeError"
  THEN Return(Envelope(<<"JSON", "parsing", "failed">>, response, doc_type))
  ELSE tried

\* except json.JSONDecodeError / except Exception: what comes out of the try body
Except(tried, response, doc_type) ==
  IF ~tried.raised THEN tried
  ELSE IF tried.kind = "JSONDecodeError"
  THEN Return(Envelope(<<"JSON", "parsing", "failed">>, response, doc_type))
  ELSE Return(Envelope(tried.error, response, doc_type))

_parse_json_response(response, doc_type, t) ==
  Except(TryParse(response, doc_type, t), response, doc_type)

\* ------------------------------------------------------------------------
\* routing/script_router.py: is_marksheet and is_gibberish_or_devanagari.  A
\* text is the sequence of its tokens, which single blanks separate
\* ------------------------------------------------------------------------

\* the tokens of the texts handed to the script router; <devanagari:6> is a word of
\* six Devanagari letters
RouteVocabulary ==
  {"12345678", "9g", "<devanagari:6>", "ENGLISH", "Mathematics", "NO", "REPORT", "REUIR", "Ridle", "SEAT", "Sciences", "THIOT", "a", "account", "are", "bank", "branch", "have", "internationalization", "report", "rhythms", "the", "was", "were"}

\* MARKSHEET_KEYWORDS, each keyword as the sequence of its words
MARKSHEET_KEYWORDS ==
  {<<"centre", "no">>,
   <<"certificate", "examination">>,
   <<"english">>,
   <<"hindi">>,
   <<"hsc">>,
   <<"marathi">>,
   <<"marks", "in", "figures">>,
   <<"marks", "in", "words">>,
   <<"marks", "obtained">>,
   <<"mathematics">>,
   <<"month", "&", "year", "of", "exam">>,
   <<"science">>,
   <<"seat", "no">>,
   <<"secondary", "school", "certificate">>,
   <<"social", "sciences">>,
   <<"ssc">>,
   <<"statement", "of", "marks">>,
   <<"subject", "name">>}

\* a token that holds nothing but its n characters, and a plain word of n letters
Mark(n) ==
  [width |-> n, devanagari |-> 0, words |-> 0, letters |-> 0, clusters |-> 0, caps |-> 0, mixed |-> 0, single |-> 0, financial |-> {}, common |-> {}, artifacts |-> {}, keywords |-> {}, ends |-> {}, starts |-> {}, is |-> {}]

Word(n) == [Mark(n) EXCEPT !.words = 1, !.letters = n]

\* what the patterns and vocabularies of the router find in one token: its length
\* (width), its Devanagari characters, its ENGLISH_WORD_RE words and their
\* letters, the words with five or more consonants in a row (clusters), the
\* all-caps words of more than four letters outside COMMON_WORDS and
\* FINANCIAL_KEYWORDS (caps), its digit-letter words (mixed), its single letters,
\* its lower-cased words in FINANCIAL_KEYWORDS and in COMMON_WORDS, the
\* DEVANAGARI_OCR_ARTIFACTS it holds, the one-word marksheet keywords its lower
\* case holds, and the words of the longer keywords it ends with, starts with, is
RouteToken(tok) ==
  CASE tok = "the" -> [Word(3) EXCEPT !.common = {"the"}]
    [] tok = "are" -> [Word(3) EXCEPT !.common = {"are"}]
    [] tok = "was" -> [Word(3) EXCEPT !.common = {"was"}]
    [] tok = "were" -> [Word(4) EXCEPT !.common = {"were"}]
    [] tok = "have" -> [Word(4) EXCEPT !.common = {"have"}]
    [] tok = "report" -> Word(6)
    [] tok = "bank" -> [Word(4) EXCEPT !.financial = {"bank"}]
    [] tok = "account" -> [Word(7) EXCEPT !.financial = {"account"}]
    [] tok = "branch" -> [Word(6) EXCEPT !.financial = {"branch"}]
    [] tok = "REPORT" -> [Word(6) EXCEPT !.caps = 1]
    [] tok = "rhythms" -> [Word(7) EXCEPT !.clusters = 1]
    [] tok = "a" -> [Mark(1) EXCEPT !.single = 1]
    [] tok = "internationalization" -> [Word(20) EXCEPT !.starts = {"in"}]
    [] tok = "9g" -> [Mark(2) EXCEPT !.mixed = 1]
    [] tok = "THIOT" -> [Word(5) EXCEPT !.caps = 1, !.artifacts = {"THIOT"}]
    [] tok = "REUIR" -> [Word(5) EXCEPT !.caps = 1, !.artifacts = {"REUIR"}]
    [] tok = "Ridle" -> [Word(5) EXCEPT !.artifacts = {"Ridle"}]
    [] tok = "<devanagari:6>" -> [Mark(6) EXCEPT !.devanagari = 6]
    [] tok = "SEAT" -> [Word(4) EXCEPT !.ends = {"seat"}, !.starts = {"seat"}, !.is = {"seat"}]
    [] tok = "NO" -> [Mark(2) EXCEPT !.ends = {"no"}, !.starts = {"no"}, !.is = {"no"}]
    [] tok = "Mathematics" -> [Word(11) EXCEPT !.keywords = {"mathematics"}]
    [] tok = "Sciences" -> [Word(8) EXCEPT !.keywords = {"science"}, !.ends = {"sciences"}, !.starts = {"sciences"}, !.is = {"sciences"}]
    [] tok = "ENGLISH" -> [Word(7) EXCEPT !.caps = 1, !.keywords = {"english"}]
    [] tok = "12345678" -> Mark(8)

RECURSIVE SumSeq(_)
SumSeq(ns) == IF ns = <<>> THEN 0 ELSE Head(ns) + SumSeq(Tail(ns))

\* the sum of one count of RouteToken over the tokens of the text
Count(t, what) == SumSeq([i \in 1..Len(t) |-> RouteToken(t[i])[what]])

\* the members of one set of RouteToken over the tokens of the text
Found(t, what) == UNION {RouteToken(t[i])[what] : i \in 1..Len(t)}

\* kw in text_l, with the keyword beginning in token i
KeywordAt(t, kw, i) ==
  IF Len(kw) = 1 THEN kw[1] \in RouteToken(t[i]).keywords
  ELSE /\ i + Len(kw) - 1 <= Len(t)
       /\ kw[1] \in RouteToken(t[i]).ends
       /\ kw[Len(kw)] \in RouteToken(t[i + Len(kw) - 1]).starts
       /\ \A j \in 2..(Len(kw) - 1) : kw[j] \in RouteToken(t[i + j - 1]).is

\* hits = sum(1 for kw in MARKSHEET_KEYWORDS if kw in text_l)
hits(t) ==
  Cardinality({kw \in MARKSHEET_KEYWORDS : \E i \in 1..Len(t) : KeywordAt(t, kw, i)})

\* (a variant for comparison) a marksheet needs four keywords
is_marksheet_strict(t) == hits(t) >= 4

is_marksheet(t) == hits(t) >= 3

\* len(text.strip())
total_chars(t) == IF t = <<>> THEN 0 ELSE Count(t, "width") + Len(t) - 1

\* the checks of is_gibberish_or_devanagari after the marksheet and length
\* checks, in the order of the source; each ratio is compared as a product
devanagari_check(t) == 20 * Count(t, "devanagari") > total_chars(t)

few_words_check(t) == Count(t, "words") < 20

artifact_check(t) == Cardinality(Found(t, "artifacts")) >= 3

mixed_check(t) == 4 * Count(t, "mixed") > Max({Len(t), 1})

financial_check(t) == Cardinality(Found(t, "financial")) >= 3

common_check(t) == Cardinality(Found(t, "common")) < 5 /\ ~is_marksheet(t)

caps_check(t) == 5 * Count(t, "caps") > Max({Count(t, "words"), 1})

cluster_check(t) == 10 * Count(t, "clusters") > 3 * Count(t, "words")

single_check(t) == 20 * Count(t, "single") > 3 * Max({Len(t), 1})

length_check(t) ==
  \/ 2 * Count(t, "letters") < 5 * Count(t, "words")
  \/ Count(t, "letters") > 12 * Count(t, "words")

\* (a variant for comparison) the common words are counted before the
\* financial keywords
is_gibberish_common_first(t) ==
  IF t = <<>> \/ total_chars(t) < 50 THEN ~(t # <<>> /\ is_marksheet(t))
  ELSE IF is_marksheet(t) THEN FALSE
  ELSE IF devanagari_check(t) \/ few_words_check(t) \/ artifact_check(t) \/ mixed_check(t)
  THEN TRUE
  ELSE IF common_check(t) THEN TRUE
  ELSE IF financial_check(t) THEN FALSE
  ELSE caps_check(t) \/ cluster_check(t) \/ single_check(t) \/ length_check(t)

is_gibberish_or_devanagari(t) ==
  IF t = <<>> \/ total_chars(t) < 50 THEN ~(t # <<>> /\ is_marksheet(t))
  ELSE IF is_marksheet(t) THEN FALSE
  ELSE IF devanagari_check(t) THEN TRUE
  ELSE IF few_words_check(t) THEN TRUE
  ELSE IF artifact_check(t) THEN TRUE
  ELSE IF mixed_check(t) THEN TRUE
  ELSE IF financial_check(t) THEN FALSE
  ELSE IF common_check(t) THEN TRUE
  ELSE IF caps_check(t) THEN TRUE
  ELSE IF cluster_check(t) THEN TRUE
  ELSE IF single_check(t) THEN TRUE
  ELSE IF length_check(t) THEN TRUE
  ELSE FALSE

\* ------------------------------------------------------------------------
\* The board detector, named in the docstring of the CBSE validator as the
\* condition of its call; no module of src defines it.  Section 4.2 of the specification
\* fixes the order cbse, icse, ssc, unknown on the upper-cased text and leaves
\* the indicator sets open.  One indicator stands for each set here: the word
\* CBSE, the word ICSE, the phrase SEAT NO
\* ------------------------------------------------------------------------

\* the text holds an indicator of the board
Indicator(t, b) ==
  CASE b = "cbse" -> HasPhrase(Flatten(t), <<"CBSE">>)
    [] b = "icse" -> HasPhrase(Flatten(t), <<"ICSE">>)
    [] b = "ssc" -> HasPhrase(Flatten(t), <<"SEAT", "NO">>)

\* (a variant for comparison) the SSC indicators are tried first
detect_board_ssc_first(t) ==
  IF Indicator(t, "ssc") THEN "ssc"
  ELSE IF Indicator(t, "cbse") THEN "cbse"
  ELSE IF Indicator(t, "icse") THEN "icse"
  ELSE "unknown"

detect_marksheet_board(t) ==
  IF Indicator(t, "cbse") THEN "cbse"
  ELSE IF Indicator(t, "icse") THEN "icse"
  ELSE IF Indicator(t, "ssc") THEN "ssc"
  ELSE "unknown"

\* ------------------------------------------------------------------------
\* The inputs of the model: OCR texts (sequences of lines), records as the LLM
\* reports them, and completions
\* ------------------------------------------------------------------------

\* the subject rows of an SSC marksheet, in print order
SscRows ==
  <<  <<"03", "ENGLISH", "100", "078", "SEVENTY">>,
      <<"15", "HINDI", "100", "090", "NINETY">>,
      <<"71", "MATHEMATICS", "100", "085", "EIGHTY">>,
      <<"72", "SCIENCE", "&", "TECHNOLOGY", "100", "080", "EIGHTY">>,
      <<"73", "SOCIAL", "SCIENCES", "100", "070", "SEVENTY">>,
      <<"P1", "HEALTH", "&", "PHYSICAL", "EDUCATION", "A">>,
      <<"R8", "WATER", "SECURITY", "B">>  >>

SscHeads == {<<"SEAT", "NO", "2024">>, <<"NEW", "PATTERN", "SEAT", "NO", "2025">>}

\* the text shows the rows from this one on: all, the last four, the two
\* grade-only rows, none
SscFirstRows == {1, 4, 6, 8}

SscTotals ==
  {<<"TOTAL", "500", "423", "PERCENTAGE", "84.60">>,
   <<"Total", "700", "423", "84.60">>,
   <<"TOTAL", "500", "240">>,
   <<>>}

\* a text that prints a decimal in its heading, before the subject rows, and
\* none after them
SscStrayTexts ==
  {<<  <<"SEAT", "NO", "2024", "84.60">> \o Flatten(SscRows) \o <<"TOTAL", "500", "240">>  >>}

\* an SSC text is one line: head, the rows shown, the totals
SscTexts ==
  {<<head \o Flatten(SubSeq(SscRows, first, Len(SscRows))) \o totals>> :
     head \in SscHeads, first \in SscFirstRows, totals \in SscTotals}
  \cup SscStrayTexts

\* a subject row as the LLM reports it for an SSC marksheet
LlmRow(name, marks, max, grade) ==
  [subject_name |-> name, marks_obtained |-> marks, max_marks |-> max, grade |-> grade]

SscLlmSubjects ==
  {Absent,
   PyList(<<LlmRow("Mathematics", PyInt(85), PyInt(100), None),
            LlmRow("MATHEMATICS", PyInt(90), PyInt(80), PyStr(<<"A">>)),
            LlmRow("Water Security", PyInt(0), None, PyStr(<<"a">>))>>),
   PyList(<<LlmRow("Science & Technology", None, None, None),
            LlmRow("Health & Physical Education", PyInt(85), PyInt(100), PyStr(<<"X">>))>>)}

\* rows with the same name three times over, and with marks that the LLM
\* wrote as strings
SscDuplicateSubjects ==
  PyList(<<LlmRow("Mathematics", PyStr(<<"100">>), PyInt(100), None),
           LlmRow("Science", PyInt(80), PyInt(100), None),
           LlmRow("MATHEMATICS", PyStr(<<"90">>), PyInt(100), None),
           LlmRow(" Science ", PyInt(70), PyInt(100), None),
           LlmRow("SCIENCE", PyInt(80), PyInt(100), PyStr(<<"B">>))>>)

\* the record of an SSC marksheet as the LLM reports it
SscRecord(subjects, tmm, tmo, pct) ==
  [EmptyRecord EXCEPT !.document_type = PyStr(<<"marksheet">>),
                      !.student_name = PyStr(<<"RAHUL", "KUMAR", "SHARMA", "JUNIOR">>),
                      !.mother_name = PyStr(<<"ANITA", "DEVI">>),
                      !.fathers_name = PyStr(<<"SURESH">>),
                      !.subjects = subjects,
                      !.total_max_marks = tmm,
                      !.total_marks_obtained = tmo,
                      !.percentage = pct]

\* the names as the LLM reports them: mother_name and student_name, from no
\* value to more words than the field may hold
LlmNames ==
  {<<None, None>>,
   <<PyStr(<<>>), PyStr(<<>>)>>,
   <<PyStr(<<"ANITA">>), PyStr(<<"RAHUL">>)>>,
   <<PyStr(<<"ANITA", "DEVI", "SHARMA">>), PyStr(<<"RAHUL", "KUMAR", "SHARMA">>)>>}

SscRecords ==
  {SscRecord(subjects, tmm, tmo, pct) :
     subjects \in SscLlmSubjects,
     tmm \in {Absent, PyInt(500), PyInt(700)},
     tmo \in {Absent, PyInt(423), PyInt(999)},
     pct \in {PyFloat(84600), PyFloat(75000)}}

\* the records with the names and with the duplicate rows, and the texts they
\* come with: one that shows every row and the totals, one that shows no row
SscNameRecords ==
  {[SscRecord(Absent, PyInt(500), PyInt(423), PyFloat(84600))
      EXCEPT !.mother_name = names[1], !.student_name = names[2]] : names \in LlmNames}
  \cup
  {SscRecord(SscDuplicateSubjects, PyInt(500), PyInt(423), PyFloat(84600))}

SscNameTexts ==
  {<<  <<"SEAT", "NO", "2024">> \o Flatten(SscRows)
         \o <<"TOTAL", "500", "423", "PERCENTAGE", "84.60">>  >>,
   <<  <<"SEAT", "NO", "2024">>  >>}

\* the lines of a CBSE marksheet: the heading lines and the subject rows
CbseHeads ==
  {<<  <<"CBSE">>,
       <<"This", "is", "to", "certify", "that", "RAHUL", "KUMAR", "Roll", "No.", "12345678">>,
       <<"Mother's", "Name", "ANITA", "DEVI", "Father's", "Name", "SURESH", "KUMAR">>,
       <<"SECONDARY", "SCHOOL", "EXAMINATION,", "2024">>,
       <<"Result", "FAIL">>  >>,
   <<  <<"CBSE">>, <<"Roll", "No.", "12345678">>  >>}

CbseRows ==
  <<  <<"184", "ENGLISH", "LANG", "&", "LIT.", "068", "020", "088", "EIGHTY", "EIGHT", "A2">>,
      <<"002", "HINDI", "COURSE-B", "075", "020", "095", "NINETY", "FIVE", "A1">>,
      <<"086", "SCIENCE", "045", "FORTY", "FIVE", "C2">>,
      <<"087", "SOCIAL", "SCIENCE", "075", "SEVENTY", "FIVE", "B1">>,
      <<"436", "NCC", "A">>,
      <<"ADDITIONAL", "SUBJECT">>,
      <<"999", "SCIENCE", "075", "SEVENTY", "FIVE", "A1">>  >>

CbseRowCounts == {0, 2, 5, 7}

CbseTexts ==
  {head \o SubSeq(CbseRows, 1, n) : head \in CbseHeads, n \in CbseRowCounts}

\* a subject row as the LLM reports it for a CBSE marksheet
CbseLlmRow(code, name, marks, max, grade, additional) ==
  [subject_code |-> code, subject_name |-> name, theory_marks |-> Absent,
   ia_pr_marks |-> Absent, marks_obtained |-> marks, max_marks |-> max, grade |-> grade,
   _is_additional |-> additional]

CbseLlmSubjects ==
  {Absent,
   PyList(<<CbseLlmRow(PyStr(<<"086">>), "Science", PyInt(88), PyInt(100), PyStr(<<"A2">>), Absent),
            CbseLlmRow(Absent, "NCC", None, None, PyStr(<<"A">>), Absent)>>),
   PyList(<<CbseLlmRow(PyStr(<<"184">>), "English", PyInt(68), PyInt(80), PyStr(<<"A1">>), Absent),
            CbseLlmRow(PyStr(<<"402">>), "Information Technology", PyInt(88), PyInt(100),
                       PyStr(<<"X">>), Absent),
            CbseLlmRow(None, "Physics", PyInt(150), None, None, PyTrue)>>)}

CbseRecords ==
  {[EmptyRecord EXCEPT !.document_type = PyStr(<<"marksheet">>),
                       !.student_name = student,
                       !.mother_name = PyStr(<<"ANITA", "DEVI">>),
                       !.result = result,
                       !.subjects = subjects,
                       !.total_max_marks = PyInt(500),
                       !.percentage = PyFloat(84600)] :
     student \in {PyStr(<<"RAHUL", "Sharma", "KUMAR">>), None},
     result \in {Absent, PyStr(<<"PASS">>)},
     subjects \in CbseLlmSubjects}

\* the CBSE records with the names, and the texts they come with: the
\* headings, with and without the names, and no subject row
CbseNameRecords ==
  {[EmptyRecord EXCEPT !.document_type = PyStr(<<"marksheet">>),
                       !.student_name = names[2],
                       !.mother_name = names[1]] : names \in LlmNames}

CbseNameTexts == CbseHeads

\* the texts and records on which the validation dispatcher is run: marksheets of
\* each board and the other document types
OtherTexts == {<<  <<"ICSE">>, <<"Roll", "No.", "12345678">>  >>, <<  <<"Result", "PASS">>  >>}

PassBookRecords ==
  {[EmptyRecord EXCEPT !.document_type = PyStr(<<doc>>),
                       !.parent_name = parent,
                       !.address = address] :
     doc \in {"pass_book", "passbook", "income_certificate", "aadhaar"},
     parent \in {PyStr(ws) : ws \in ParentNames} \cup {None, Absent, PyTrue},
     address \in {PyStr(ws) : ws \in Addresses} \cup {Absent, PyTrue}}

\* the texts of the income certificates: a year line with the income in
\* Devanagari digits, the income in ASCII digits, the same with the zeros read
\* as the letter O, and no text
IncomeYearLine ==
  <<"dev2", "dev0", "dev2", "dev3", "-", "dev2", "dev0", "dev2", "dev4", " ",
    "dev1", ",", "dev0", "dev0", ",", "dev0", "dev0", "dev0">>

IncomeTexts ==
  {<<  <<"R", "s">>, IncomeYearLine  >>,
   <<  <<"R", "s", " ", "1", "0", "0", "0", "0", "0">>  >>,
   <<  <<"R", "s", " ", "1", "O", "O", "O", "O", "O">>  >>,
   <<>>}

IncomeValues ==
  {PyStr(<<"dev1", ",", "dev0", "dev0", ",", "dev0", "dev0", "dev0">>),
   PyStr(<<"1", "0", "0", "0", "0", "0">>),
   PyStr(<<"1", "0", "0", "0", "0", "9">>),
   PyStr(<<"9", "5", ",", "0", "0", "0">>),
   PyStr(<<>>), None, Absent}

IncomeRecords ==
  {[EmptyRecord EXCEPT !.document_type = PyStr(<<doc>>), !.income_value = income] :
     doc \in {"income_certificate", "aadhaar"}, income \in IncomeValues}

\* records of the other document types, and records that name no type
OtherRecords ==
  {[EmptyRecord EXCEPT !.document_type = doc,
                       !.name = PyStr(<<"RAM", "KUMAR">>),
                       !.pan_number = PyStr(<<"ABCDE1234F">>),
                       !.parent_name = PyStr(<<"RAM", "NAGAR">>),
                       !.address = PyStr(<<"RAM", "NAGAR">>),
                       !.income_value = PyStr(<<"1", "0", "0", "0", "0", "9">>)] :
     doc \in {PyStr(<<"pan">>), PyStr(<<"aadhaar">>), PyStr(<<>>), None, Absent}}

\* the completions: prose, an opening fence, a body, a closing fence
MaxProse == 2

Bodies ==
  {<<"{", "'document_type': 'pass_book'", ",", " ", "'parent_name': 'RAM KUMAR'", "}">>,
   <<"{", "'parent_name': 'SURESH KUMAR SHARMA'", ",", "'address': true", "}">>,
   <<"{", "'parent_name': 'RAM NAGAR'", "}">>,
   <<"{", "'document_type': 'marksheet'", ",", "'student_name': 'RAHUL KUMAR'", "}", " ">>,
   <<"{", "'parent_name': 'RAM KUMAR'", "oops", "}">>,
   <<"{", "}">>,
   <<"}", "{">>,
   <<"[", "'RAM KUMAR'", ",", "null", ",", "'RAM KUMAR'", "]">>,
   <<"[", "'pass_book'", ",">>,
   <<"[", "{", "'document_type': 'aadhaar'", "}", "]">>,
   <<"Here">>,
   <<>>}

RECURSIVE Prose(_)
Prose(p) == IF p = 0 THEN <<>> ELSE <<"<600 characters of prose>">> \o Prose(p - 1)

Responses ==
  {Prose(p) \o open \o body \o close :
     p \in 0..MaxProse,
     open \in {<<>>, <<"<fence>json">>, <<" ", "<fence>">>},
     body \in Bodies,
     close \in {<<>>, <<"<fence>", " ">>}}

\* the document-type hints of the caller
DocTypes == {"pass_book", "marksheet", "income_certificate", "other"}

\* n tokens tok
Rep(tok, n) == [i \in 1..n |-> tok]

\* twenty words of English, five of them common words
CleanText == <<"the", "are", "was", "were", "have">> \o Rep("report", 15)

\* the texts the primary OCR engine reads, each a sequence of tokens on one line
RouteTexts ==
  {<<>>,
   CleanText,
   CleanText \o <<"12345678">>,
   Rep("report", 5),
   <<"SEAT", "NO", "Mathematics", "ENGLISH">>,
   <<"SEAT", "NO", "Mathematics">>,
   CleanText \o <<"SEAT", "NO", "Mathematics", "ENGLISH">>,
   Rep("<devanagari:6>", 10) \o <<"SEAT", "NO", "Sciences", "ENGLISH">>,
   Rep("report", 7) \o <<"<devanagari:6>">>,
   Rep("report", 10),
   CleanText \o <<"THIOT", "REUIR", "Ridle">>,
   CleanText \o Rep("9g", 7),
   Rep("report", 17) \o <<"bank", "account", "branch">>,
   Rep("report", 17) \o <<"bank", "account", "branch">> \o Rep("<devanagari:6>", 2),
   Rep("report", 7) \o <<"bank", "account", "branch">>,
   Rep("report", 20),
   CleanText \o Rep("REPORT", 6),
   CleanText \o Rep("rhythms", 9),
   CleanText \o Rep("a", 4),
   CleanText \o Rep("a", 3),
   <<"the", "are", "was", "were", "have">> \o Rep("internationalization", 15)}

\* the numeric subjects of the texts handed to the SSC subject extraction: code,
\* name, marks, marks in words
ExtractSubjects ==
  <<  [code |-> "03", name |-> <<"ENGLISH">>, marks |-> "078", words |-> "SEVENTY"],
      [code |-> "15", name |-> <<"HINDI">>, marks |-> "090", words |-> "NINETY"],
      [code |-> "71", name |-> <<"MATHEMATICS">>, marks |-> "090", words |-> "NINETY"],
      [code |-> "72", name |-> <<"SCIENCE", "&", "TECHNOLOGY">>, marks |-> "080", words |-> "EIGHTY"],
      [code |-> "73", name |-> <<"SOCIAL", "SCIENCES">>, marks |-> "070", words |-> "SEVENTY"]  >>

\* a row as the OCR read it: whole, without its code, or only the first word of
\* the name with the maximum and the marks
ExtractStyles == {"coded", "uncoded", "bare"}

\* the marks the OCR read in the Mathematics row: as printed, or with a 1 for the 0
MathsMarks == {"090", "190"}

ExtractRow(i, style, maths) ==
  LET r == ExtractSubjects[i]
      marks == IF r.code = "71" THEN maths ELSE r.marks
  IN  CASE style = "coded" -> <<r.code>> \o r.name \o <<"100", marks, r.words>>
        [] style = "uncoded" -> r.name \o <<"100", marks, r.words>>
        [] style = "bare" -> <<r.name[1], "100", marks>>

RECURSIVE ExtractRowsFrom(_, _, _)
ExtractRowsFrom(i, style, maths) ==
  IF i > Len(ExtractSubjects) THEN <<>>
  ELSE ExtractRow(i, style, maths) \o ExtractRowsFrom(i + 1, style, maths)

\* what follows the numeric rows: nothing, the two grade-only rows, the Water
\* Security row without its grade before the totals, the Health row before the totals
ExtractTails ==
  {<<>>,
   <<"P1", "HEALTH", "&", "PHYSICAL", "EDUCATION", "A", "R8", "WATER", "SECURITY", "B">>,
   <<"R8", "WATER", "SECURITY", "TOTAL", "500", "423", "PERCENTAGE", "84.60">>,
   <<"P1", "HEALTH", "&", "PHYSICAL", "EDUCATION", "A", "TOTAL", "500", "423", "PERCENTAGE",
     "84.60">>}

\* the texts handed to the SSC subject extraction, each of one line
ExtractTexts ==
  {<<head \o ExtractRowsFrom(first, style, maths) \o tail>> :
     head \in SscHeads, first \in {1, 2, 3, 5}, style \in ExtractStyles,
     maths \in MathsMarks, tail \in ExtractTails}

\* the lines of the texts handed to the board detector
BoardLines ==
  {<<"CBSE">>, <<"ICSE">>, <<"SEAT", "NO">>, <<"SEAT">>, <<"NO">>, <<"Result", "PASS">>}

\* the longest text handed to the board detector, in lines
MaxBoardLines == 3

BoardTexts ==
  UNION {[1..n -> BoardLines] : n \in 0..MaxBoardLines}
  \cup SscTexts \cup CbseTexts \cup OtherTexts

\* extract_text_from_document: the text with the type it detects, or the
\* failure record of its except clause
PrimaryResults ==
  {[text |-> <<>>, doc_type |-> "unknown", success |-> FALSE]}
  \cup {[text |-> t, doc_type |-> d, success |-> TRUE] :
          t \in RouteTexts, d \in {"pass_book", "other"}}

\* run_income_certificate_ocr: a successful record, or an exception of the
\* reader
AlternateResults ==
  {Return([text |-> Rep("<devanagari:6>", 3), doc_type |-> "income_certificate",
           success |-> TRUE]),
   Return([text |-> <<>>, doc_type |-> "unknown", success |-> TRUE]),
   Raise("error", <<"could", "not", "read", "the", "file">>)}

\* the files handed to the pipeline, each with what the two engines read in it
Files == [primary : PrimaryResults, alternate : AlternateResults]

\* the completions of the LLM in the pipeline
Completions ==
  {<<"{", "'document_type': 'pass_book'", ",", " ", "'parent_name': 'RAM KUMAR'", "}">>,
   <<"{", "}">>,
   <<"Here">>}

\* ------------------------------------------------------------------------
\* The state machine.  One record travels through one operation of the
\* extractor: the response parser, the validation dispatcher, or a validator
\* that is run again on its own output
\* ------------------------------------------------------------------------

VARIABLES
  raw_text,   \* the OCR text
  response,   \* the LLM's completion
  doc_type,   \* the caller's document-type hint
  board,      \* the validator the record is handed to: "ssc" or "cbse", "" for none
  original,   \* the record as it entered the operation
  prev,       \* the record before the latest run
  data,       \* the record
  runs,       \* the number of runs made
  status,     \* "new", "returned", or "raised" if the operation raised
  file,       \* the file of the request, as the two OCR engines read it
  pc,         \* the position of the request in the pipeline, "idle" outside it
  ocr_result, \* the OCR result in hand
  calls,      \* the calls made of the primary engine, the alternate engine, the LLM
  error,      \* the message of the exception the pipeline raised
  subjects,   \* the rows the latest SSC extraction strategy gave
  tried,      \* the SSC extraction strategies run, in order
  _doctr_model, \* eng_ocr._doctr_model: 0 for None, else the number of the instance
  _doctr_lock,  \* the thread that holds eng_ocr._doctr_lock, 0 when it is free
  at,         \* the position of each thread in initialize_doctr_model
  model,      \* the local variable model of each thread
  returned,   \* what initialize_doctr_model returned to each thread
  constructed \* the instances of the OCR model constructed so far, each with its stage

\* the variables of the pipeline, of the SSC subject extraction, of the OCR model
pipeline_vars == <<file, pc, ocr_result, calls, error>>

extraction_vars == <<subjects, tried>>

doctr_vars == <<_doctr_model, _doctr_lock, at, model, returned, constructed>>

vars == <<raw_text, response, doc_type, board, original, prev, data, runs, status,
          pipeline_vars, extraction_vars, doctr_vars>>

\* no OCR result in hand
NoResult == [text |-> <<>>, doc_type |-> "", success |-> FALSE]

NoCalls == [primary |-> 0, alternate |-> 0, llm |-> 0]

\* no SSC subject extraction is under way
NoExtraction ==
  /\ subjects = <<>>
  /\ tried = <<>>

\* no thread is in initialize_doctr_model, and the OCR model is not loaded
NoThreads ==
  /\ _doctr_model = 0
  /\ _doctr_lock = 0
  /\ at = <<>>
  /\ model = <<>>
  /\ returned = <<>>
  /\ constructed = <<>>

\* the operations of the extractor run outside the pipeline
Idle ==
  /\ file = [primary |-> NoResult, alternate |-> Return(NoResult)]
  /\ pc = "idle"
  /\ ocr_result = NoResult
  /\ calls = NoCalls
  /\ error = <<>>
  /\ NoExtraction
  /\ NoThreads

\* the number of times a validator is run on a record
MaxRuns == 2

InitParse ==
  /\ response \in Responses
  /\ doc_type \in DocTypes
  /\ raw_text = <<>>
  /\ board = ""
  /\ original = EmptyRecord
  /\ prev = EmptyRecord
  /\ data = EmptyRecord
  /\ runs = 0
  /\ status = "new"
  /\ Idle

InitDispatch ==
  /\ response = <<>>
  /\ doc_type = ""
  /\ \/ raw_text \in SscTexts \cup CbseTexts \cup OtherTexts /\ data \in SscRecords
     \/ raw_text = <<>> /\ data \in PassBookRecords
     \/ raw_text \in IncomeTexts /\ data \in IncomeRecords \cup OtherRecords
  /\ board = ""
  /\ original = data
  /\ prev = data
  /\ runs = 0
  /\ status = "new"
  /\ Idle

Init ==
  /\ response = <<>>
  /\ doc_type = ""
  /\ \/ board = "ssc" /\ raw_text \in SscTexts /\ data \in SscRecords
     \/ board = "ssc" /\ raw_text \in SscNameTexts /\ data \in SscNameRecords
     \/ board = "cbse" /\ raw_text \in CbseTexts /\ data \in CbseRecords
     \/ board = "cbse" /\ raw_text \in CbseNameTexts /\ data \in CbseNameRecords
  /\ original = data
  /\ prev = data
  /\ runs = 0
  /\ status = "new"
  /\ Idle

\* the outcome of a call is stored
Store(out) ==
  /\ status' = IF out.raised THEN "raised" ELSE "returned"
  /\ data' = out.value
  /\ prev' = data
  /\ runs' = runs + 1
  /\ UNCHANGED <<raw_text, response, doc_type, board, original>>
  /\ UNCHANGED <<pipeline_vars, extraction_vars, doctr_vars>>

Parse ==
  /\ status = "new"
  /\ Store(_parse_json_response(response, doc_type, raw_text))

Dispatch ==
  /\ status = "new"
  /\ Store(_validate_and_fix_extraction(data, raw_text))

ValidateSSC ==
  /\ board = "ssc"
  /\ runs < MaxRuns
  /\ Store(Return(validate_and_fix_ssc_marksheet(data, Flatten(raw_text))))

ValidateCBSE ==
  /\ board = "cbse"
  /\ runs < MaxRuns
  /\ Store(Return(validate_and_fix_cbse_marksheet(data, raw_text)))

\* ------------------------------------------------------------------------
\* pipeline.py: run_full_pipeline, with ocr/ocr_router.py: smart_ocr.  One
\* request travels from the primary OCR engine through the script router to
\* the LLM extractor
\* ------------------------------------------------------------------------

InitPipeline ==
  /\ file \in Files
  /\ pc = "primary"
  /\ ocr_result = NoResult
  /\ calls = NoCalls
  /\ error = <<>>
  /\ raw_text = <<>>
  /\ response = <<>>
  /\ doc_type = ""
  /\ board = ""
  /\ original = EmptyRecord
  /\ prev = EmptyRecord
  /\ data = EmptyRecord
  /\ runs = 0
  /\ status = "new"
  /\ NoExtraction
  /\ NoThreads

\* an exception leaves run_full_pipeline
Fail(message) ==
  /\ pc' = "done"
  /\ status' = "raised"
  /\ error' = message

\* (a variant for comparison) a primary result without success is handed to
\* the script router like any other
PrimaryOCRLenient ==
  /\ pc = "primary"
  /\ calls' = [calls EXCEPT !.primary = @ + 1]
  /\ ocr_result' = file.primary
  /\ pc' = "route"
  /\ UNCHANGED <<raw_text, response, doc_type, board, original, prev, data, runs, status,
                 file, error>>
  /\ UNCHANGED <<extraction_vars, doctr_vars>>

\* smart_ocr: result = extract_text_from_document(file_path), and the
\* RuntimeError on a result without success
PrimaryOCR ==
  /\ pc = "primary"
  /\ calls' = [calls EXCEPT !.primary = @ + 1]
  /\ ocr_result' = file.primary
  /\ IF ~file.primary.success
     THEN Fail(<<"DocTR", "OCR", "failed">>)
     ELSE pc' = "route" /\ UNCHANGED <<status, error>>
  /\ UNCHANGED <<raw_text, response, doc_type, board, original, prev, data, runs, file>>
  /\ UNCHANGED <<extraction_vars, doctr_vars>>

\* smart_ocr: the two questions asked of the text of the primary result
Route ==
  /\ pc = "route"
  /\ pc' = IF is_marksheet(ocr_result.text) THEN "check"
           ELSE IF is_gibberish_or_devanagari(ocr_result.text) THEN "alternate"
           ELSE "check"
  /\ UNCHANGED <<raw_text, response, doc_type, board, original, prev, data, runs, status,
                 file, ocr_result, calls, error>>
  /\ UNCHANGED <<extraction_vars, doctr_vars>>

\* smart_ocr: return run_income_certificate_ocr(file_path)
AlternateOCR ==
  /\ pc = "alternate"
  /\ calls' = [calls EXCEPT !.alternate = @ + 1]
  /\ IF file.alternate.raised
     THEN Fail(file.alternate.error) /\ UNCHANGED ocr_result
     ELSE /\ ocr_result' = file.alternate.value
          /\ pc' = "check"
          /\ UNCHANGED <<status, error>>
  /\ UNCHANGED <<raw_text, response, doc_type, board, original, prev, data, runs, file>>
  /\ UNCHANGED <<extraction_vars, doctr_vars>>

\* run_full_pipeline: the test of the result of smart_ocr; the text is handed on as
\* its lines
Check ==
  /\ pc = "check"
  /\ IF ~ocr_result.success
     THEN Fail(<<"OCR", "failed">>) /\ UNCHANGED <<raw_text, doc_type>>
     ELSE /\ raw_text' = IF ocr_result.text = <<>> THEN <<>> ELSE <<ocr_result.text>>
          /\ doc_type' = ocr_result.doc_type
          /\ pc' = "extract"
          /\ UNCHANGED <<status, error>>
  /\ UNCHANGED <<response, board, original, prev, data, runs, file, ocr_result, calls>>
  /\ UNCHANGED <<extraction_vars, doctr_vars>>

\* run_full_pipeline: extractor.extract_json(raw_text, doc_type), the LLM
\* completing as it will
Extract ==
  /\ pc = "extract"
  /\ \E completion \in Completions :
       LET out == _parse_json_response(completion, doc_type, raw_text)
       IN  /\ response' = completion
           /\ status' = IF out.raised THEN "raised" ELSE "returned"
           /\ error' = out.error
           /\ data' = out.value
  /\ calls' = [calls EXCEPT !.llm = @ + 1]
  /\ pc' = "done"
  /\ runs' = runs + 1
  /\ UNCHANGED <<raw_text, doc_type, board, original, prev, file, ocr_result>>
  /\ UNCHANGED <<extraction_vars, doctr_vars>>

NextPipeline == PrimaryOCR \/ Route \/ AlternateOCR \/ Check \/ Extract

SpecPipeline == InitPipeline /\ [][NextPipeline]_vars

\* ------------------------------------------------------------------------
\* ssc_validator.py: extract_subjects_from_raw_text, one strategy at a time
\* ------------------------------------------------------------------------

InitExtract ==
  /\ raw_text \in ExtractTexts
  /\ response = <<>>
  /\ doc_type = ""
  /\ board = "ssc"
  /\ original = EmptyRecord
  /\ prev = EmptyRecord
  /\ data = EmptyRecord
  /\ runs = 0
  /\ status = "new"
  /\ file = [primary |-> NoResult, alternate |-> Return(NoResult)]
  /\ pc = "code"
  /\ ocr_result = NoResult
  /\ calls = NoCalls
  /\ error = <<>>
  /\ NoExtraction
  /\ NoThreads

\* (a variant for comparison) the rows of a strategy are returned if there are any
StrategyAnyRows(name, rows, next) ==
  /\ pc = name
  /\ tried' = Append(tried, name)
  /\ IF Len(rows) >= 1
     THEN subjects' = rows /\ pc' = "done" /\ status' = "returned"
     ELSE IF next = "done"
          THEN subjects' = <<>> /\ pc' = "done" /\ status' = "returned"
          ELSE subjects' = rows /\ pc' = next /\ UNCHANGED status
  /\ runs' = runs + 1
  /\ UNCHANGED <<raw_text, response, doc_type, board, original, prev, data>>
  /\ UNCHANGED <<file, ocr_result, calls, error, doctr_vars>>

\* the rows of a strategy are returned if they are four or more; otherwise the
\* next strategy is tried, and the empty list is returned after the last
Strategy(name, rows, next) ==
  /\ pc = name
  /\ tried' = Append(tried, name)
  /\ IF Len(rows) >= 4
     THEN subjects' = rows /\ pc' = "done" /\ status' = "returned"
     ELSE IF next = "done"
          THEN subjects' = <<>> /\ pc' = "done" /\ status' = "returned"
          ELSE subjects' = rows /\ pc' = next /\ UNCHANGED status
  /\ runs' = runs + 1
  /\ UNCHANGED <<raw_text, response, doc_type, board, original, prev, data>>
  /\ UNCHANGED <<file, ocr_result, calls, error, doctr_vars>>

\* Strategy 1: subjects = _extract_by_code_position(raw_text, rules)
CodePosition ==
  Strategy("code",
           _extract_by_code_position(Flatten(raw_text),
                                     detect_ssc_format_version(Flatten(raw_text))),
           "table")

\* Strategy 2: subjects = _extract_by_table_structure(raw_text)
TableStructure ==
  Strategy("table", _extract_by_table_structure(Flatten(raw_text)), "fuzzy")

\* Strategy 3: subjects = _extract_by_fuzzy_matching(raw_text)
FuzzyMatching ==
  Strategy("fuzzy", _extract_by_fuzzy_matching(Flatten(raw_text)), "done")

NextExtract == CodePosition \/ TableStructure \/ FuzzyMatching

SpecExtract == InitExtract /\ [][NextExtract]_vars

\* the board detector is asked for the board of a text
InitDetect ==
  /\ raw_text \in BoardTexts
  /\ response = <<>>
  /\ doc_type = ""
  /\ board = ""
  /\ original = EmptyRecord
  /\ prev = EmptyRecord
  /\ data = EmptyRecord
  /\ runs = 0
  /\ status = "new"
  /\ Idle

DetectBoard ==
  /\ status = "new"
  /\ board' = detect_marksheet_board(raw_text)
  /\ status' = "returned"
  /\ runs' = runs + 1
  /\ UNCHANGED <<raw_text, response, doc_type, original, prev, data>>
  /\ UNCHANGED <<pipeline_vars, extraction_vars, doctr_vars>>

NextDetect == DetectBoard

SpecDetect == InitDetect /\ [][NextDetect]_vars

\* ------------------------------------------------------------------------
\* ocr/eng_ocr.py: initialize_doctr_model, called by the threads that serve
\* the requests.  A step of a thread is one read or write of the global
\* _doctr_model, one operation on _doctr_lock, or one call on the instance
\* ------------------------------------------------------------------------

\* the number of threads
MaxThreads == 3

Threads == 1..MaxThreads

InitDoctr ==
  /\ raw_text = <<>>
  /\ response = <<>>
  /\ doc_type = ""
  /\ board = ""
  /\ original = EmptyRecord
  /\ prev = EmptyRecord
  /\ data = EmptyRecord
  /\ runs = 0
  /\ status = "new"
  /\ file = [primary |-> NoResult, alternate |-> Return(NoResult)]
  /\ pc = "idle"
  /\ ocr_result = NoResult
  /\ calls = NoCalls
  /\ error = <<>>
  /\ NoExtraction
  /\ _doctr_model = 0
  /\ _doctr_lock = 0
  /\ at = [t \in Threads |-> "idle"]
  /\ model = [t \in Threads |-> 0]
  /\ returned = [t \in Threads |-> 0]
  /\ constructed = <<>>

\* what a step of initialize_doctr_model leaves alone
DoctrFrame ==
  UNCHANGED <<raw_text, response, doc_type, board, original, prev, data, runs, status,
              pipeline_vars, extraction_vars>>

\* model = initialize_doctr_model(): the thread enters the function
Call(t) ==
  /\ at[t] = "idle"
  /\ at' = [at EXCEPT ![t] = "check"]
  /\ model' = [model EXCEPT ![t] = 0]
  /\ returned' = [returned EXCEPT ![t] = 0]
  /\ UNCHANGED <<_doctr_model, _doctr_lock, constructed>>
  /\ DoctrFrame

\* if _doctr_model is not None: return _doctr_model, without the lock
FirstCheck(t) ==
  /\ at[t] = "check"
  /\ IF _doctr_model # 0
     THEN /\ returned' = [returned EXCEPT ![t] = _doctr_model]
          /\ at' = [at EXCEPT ![t] = "idle"]
     ELSE /\ at' = [at EXCEPT ![t] = "acquire"]
          /\ UNCHANGED returned
  /\ UNCHANGED <<_doctr_model, _doctr_lock, model, constructed>>
  /\ DoctrFrame

\* with _doctr_lock: the thread waits until the lock is free and takes it
Acquire(t) ==
  /\ at[t] = "acquire"
  /\ _doctr_lock = 0
  /\ _doctr_lock' = t
  /\ at' = [at EXCEPT ![t] = "locked"]
  /\ UNCHANGED <<_doctr_model, model, returned, constructed>>
  /\ DoctrFrame

\* (a variant for comparison) single-checked locking: with the lock in hand
\* the thread constructs the model without a second look at the global
NoSecondCheck(t) ==
  /\ at[t] = "locked"
  /\ at' = [at EXCEPT ![t] = "construct"]
  /\ UNCHANGED <<_doctr_model, _doctr_lock, model, returned, constructed>>
  /\ DoctrFrame

\* if _doctr_model is not None: return _doctr_model, under the lock; the
\* return leaves the with block, which releases the lock
SecondCheck(t) ==
  /\ at[t] = "locked"
  /\ IF _doctr_model # 0
     THEN /\ returned' = [returned EXCEPT ![t] = _doctr_model]
          /\ _doctr_lock' = 0
          /\ at' = [at EXCEPT ![t] = "idle"]
     ELSE /\ at' = [at EXCEPT ![t] = "construct"]
          /\ UNCHANGED <<returned, _doctr_lock>>
  /\ UNCHANGED <<_doctr_model, model, constructed>>
  /\ DoctrFrame

\* model = ocr_predictor(pretrained=True): a new instance, not yet placed on
\* its device
Construct(t) ==
  /\ at[t] = "construct"
  /\ constructed' = Append(constructed, "built")
  /\ model' = [model EXCEPT ![t] = Len(constructed) + 1]
  /\ at' = [at EXCEPT ![t] = "place"]
  /\ UNCHANGED <<_doctr_model, _doctr_lock, returned>>
  /\ DoctrFrame

\* if torch.cuda.is_available(): model = model.cuda(); the instance is moved
\* to the GPU, or it stays on the CPU
Place(t) ==
  /\ at[t] = "place"
  /\ \E device \in {"gpu", "cpu"} :
       constructed' = [constructed EXCEPT ![model[t]] = device]
  /\ at' = [at EXCEPT ![t] = "assign"]
  /\ UNCHANGED <<_doctr_model, _doctr_lock, model, returned>>
  /\ DoctrFrame

\* _doctr_model = model
Assign(t) ==
  /\ at[t] = "assign"
  /\ _doctr_model' = model[t]
  /\ at' = [at EXCEPT ![t] = "return"]
  /\ UNCHANGED <<_doctr_lock, model, returned, constructed>>
  /\ DoctrFrame

\* return model: the with block is left and the lock released
ReturnModel(t) ==
  /\ at[t] = "return"
  /\ returned' = [returned EXCEPT ![t] = model[t]]
  /\ _doctr_lock' = 0
  /\ at' = [at EXCEPT ![t] = "idle"]
  /\ UNCHANGED <<_doctr_model, model, constructed>>
  /\ DoctrFrame

NextDoctr ==
  \E t \in Threads :
    \/ Call(t)
    \/ FirstCheck(t)
    \/ Acquire(t)
    \/ SecondCheck(t)
    \/ Construct(t)
    \/ Place(t)
    \/ Assign(t)
    \/ ReturnModel(t)

SpecDoctr == InitDoctr /\ [][NextDoctr]_vars

NextParse == Parse

NextDispatch == Dispatch

Next == ValidateSSC \/ ValidateCBSE

SpecParse == InitParse /\ [][NextParse]_vars

SpecDispatch == InitDispatch /\ [][NextDispatch]_vars

Spec == Init /\ [][Next]_vars

\* ------------------------------------------------------------------------
\* Properties of the response parser (SpecParse)
\* ------------------------------------------------------------------------

\* the try body raises on this completion
ParseFails == TryParse(response, doc_type, raw_text).raised

\* x holds the first 1000 characters of the text s
IsFirst1000(x, s) ==
  /\ x.k = "text"
  /\ Len(x.w) <= Len(s)
  /\ x.w = SubSeq(s, 1, Len(x.w))
  /\ TextWidth(x.w) + x.n = Min({1000, TextWidth(s)})
  /\ x.n >= 0
  /\ Len(x.w) < Len(s) => x.n < LexemeWidth(s[Len(x.w) + 1])

\* C1: _parse_json_response never raises; whenever parsing or validating raises,
\* be it a JSON syntax error or any other exception, the value returned is the
\* envelope of exactly three keys: error, document_type = the caller's hint,
\* raw_response = the first 1000 characters of the response
C1_NeverRaises ==
  /\ status # "raised"
  /\ (status = "returned" /\ ParseFails) =>
       /\ \A f \in Fields \ {"error", "document_type", "raw_response"} : data[f] = Absent
       /\ data.error.k = "str" /\ data.error.w # <<>>
       /\ data.document_type = PyStr(<<doc_type>>)
       /\ IsFirst1000(data.raw_response, response)

\* a validation exception (not a JSON error) was turned into the envelope of a
\* completion longer than 1000 characters
C1_Witness ==
  /\ status = "returned"
  /\ TryParse(response, doc_type, raw_text).kind = "AttributeError"
  /\ data.error = PyStr(<<"'bool'", "object", "has", "no", "attribute", "'upper'">>)
  /\ TextWidth(response) > 1000
  /\ data.raw_response.n > 0

\* the completion is a JSON array and nothing else, and the parser returned
OnlyArray ==
  /\ status = "returned"
  /\ ~json_loads(response).raised
  /\ json_loads(response).value.k = "list"

\* the keys of the schema of the hint, as a set
SchemaKeys ==
  {get_schema_for_doc_type(doc_type)[i] : i \in 1..Len(get_schema_for_doc_type(doc_type))}

\* C14: a completion that is only a JSON array, of elements of any kind, comes
\* back as the record in which the i-th key of the schema of the hint holds the
\* i-th element, the keys past the end of the array hold None, and
\* document_type is the hint when the schema has no such key
C14_ArrayByPosition ==
  OnlyArray =>
    /\ \A i \in 1..Len(get_schema_for_doc_type(doc_type)) :
         data[get_schema_for_doc_type(doc_type)[i]] =
           IF i <= Len(json_loads(response).value.w)
           THEN json_loads(response).value.w[i]
           ELSE None
    /\ "document_type" \notin SchemaKeys => data.document_type = PyStr(<<doc_type>>)
    /\ \A f \in Fields \ (SchemaKeys \cup {"document_type"}) : data[f] = Absent

\* the completion is a valid JSON object and nothing else, and the parser
\* returned
OnlyObject ==
  /\ status = "returned"
  /\ ~json_loads(response).raised
  /\ json_loads(response).value.k = "dict"

\* the completion between an opening fence, with or without the word json, and
\* a closing fence, with or without white space inside the fences
Fenced ==
  {open \o pad \o response \o pad \o <<"<fence>">> :
     open \in {<<"<fence>">>, <<"<fence>json">>}, pad \in {<<>>, <<" ">>}}

Braced ==
  SubSeq(StripText(Unfence(StripText(response))),
         Find(StripText(Unfence(StripText(response))), "{"),
         RFind(StripText(Unfence(StripText(response))), "}"))

\* the completion holds a JSON object that has no key document_type
ObjectWithoutType ==
  /\ Find(StripText(Unfence(StripText(response))), "{") # 0
  /\ ~json_loads(Braced).raised
  /\ json_loads(Braced).value.w.document_type = Absent

\* C16: every value the parser returns, be it a parsed object, a record made
\* from an array or an error envelope, has the key document_type; for an object
\* of the LLM without that key it holds the caller's hint
C16_DocumentTypePresent ==
  status = "returned" =>
    /\ data.document_type # Absent
    /\ ObjectWithoutType => data.document_type = PyStr(<<doc_type>>)

\* an object without document_type, in prose and fences, was parsed to a record
\* that holds the hint
C16_Witness ==
  /\ status = "returned"
  /\ ObjectWithoutType
  /\ response # Braced
  /\ data.error = Absent
  /\ data.document_type = PyStr(<<doc_type>>)

\* ------------------------------------------------------------------------
\* Properties of the validation dispatcher (SpecDispatch)
\* ------------------------------------------------------------------------

\* C2: a marksheet record is passed through the SSC validator when the board
\* detector reads ssc from the raw text, through the CBSE validator when it reads
\* cbse, and is returned unvalidated for icse and unknown
C2_DispatchByBoard ==
  (status = "returned" /\ original.document_type = PyStr(<<"marksheet">>)) =>
    data = CASE detect_marksheet_board(raw_text) = "ssc" ->
                  validate_and_fix_ssc_marksheet(original, Flatten(raw_text))
             [] detect_marksheet_board(raw_text) = "cbse" ->
                  validate_and_fix_cbse_marksheet(original, raw_text)
             [] OTHER -> original

\* the record is a pass book that came with a non-empty parent_name, and the
\* validation returned
ParentChecked ==
  /\ status = "returned"
  /\ original.document_type \in {PyStr(<<"pass_book">>), PyStr(<<"passbook">>)}
  /\ Truthy(original.parent_name)

\* the characters of the name, and those of the address
ParentWords == StrOf(original.parent_name)

AddressWords == StrWords(original.address)

IncomeChecked ==
  /\ status = "returned"
  /\ original.document_type = PyStr(<<"income_certificate">>)
  /\ Truthy(original.income_value)

\* the digits of a string: Devanagari digits in ASCII, separators dropped
Digits(s) == Unseparated(Translate(s))

\* the income_value left the validation as it came
IncomeKept == data.income_value = original.income_value

\* C12 as stated: a non-empty income_value of an income certificate is kept only
\* if its digits stand in the raw text, both normalised the same way, and is
\* None in every other case
C12_AcceptedOnlyIfInText ==
  IncomeChecked =>
    data.income_value =
      IF InStr(Digits(original.income_value.w), Digits(JoinLines(raw_text)))
      THEN original.income_value
      ELSE None

\* C12 amended: the income_value is kept or None.  It is kept when there is no
\* raw text, and when its digits stand in the text with the letters o and O read
\* as zeros.  When it is kept on a text, its digits stand there so, or the text
\* has a year line with a number of more than three digits that equals the
\* value, holds it, is held by it, or shares its first five digits
C12_IncomeKeptOrNull ==
  IncomeChecked =>
    /\ data.income_value \in {original.income_value, None}
    /\ raw_text = <<>> => IncomeKept
    /\ InStr(Digits(original.income_value.w), Digits(OtoZero(JoinLines(raw_text))))
         => IncomeKept
    /\ (raw_text # <<>> /\ IncomeKept) =>
         \/ InStr(Digits(original.income_value.w), Digits(OtoZero(JoinLines(raw_text))))
         \/ /\ YearLine(JoinLines(raw_text))[1] # 0
            /\ \E num \in NumberRuns(SubSeq(JoinLines(raw_text),
                                              YearLine(JoinLines(raw_text))[1],
                                              YearLine(JoinLines(raw_text))[2])) :
                 FuzzyMatch(Digits(original.income_value.w), num)

\* an income_value whose digits the text does not hold was kept, because its
\* first five digits are those of the number on the year line
C12_Witness ==
  /\ IncomeChecked
  /\ raw_text # <<>>
  /\ IncomeKept
  /\ ~InStr(Digits(original.income_value.w), Digits(OtoZero(JoinLines(raw_text))))

\* ------------------------------------------------------------------------
\* Properties of the validators (Spec)
\* ------------------------------------------------------------------------

\* the OCR text as the SSC validator reads it
SscText == Flatten(raw_text)

\* the rows that each text of the model yields, and the record that validation
\* leaves for it when the LLM reported nothing
SscRowsOf == [t \in SscTexts |-> extract_subjects_from_raw_text(Flatten(t))]

SscBlankOf == [t \in SscTexts |-> validate_and_fix_ssc_marksheet(EmptyRecord, Flatten(t))]

CbseRowsOf == [t \in CbseTexts |-> cbse_extract_subjects_from_raw_text(t)]

CbseBlankOf == [t \in CbseTexts |-> validate_and_fix_cbse_marksheet(EmptyRecord, t)]

\* rows were read from the text by the validator of its board
SscRead == board = "ssc" /\ raw_text \in SscTexts /\ SscRowsOf[raw_text] # <<>>

CbseRead == board = "cbse" /\ raw_text \in CbseTexts /\ CbseRowsOf[raw_text] # <<>>

\* the rows of a list value
Rows(v) == IF v.k = "list" THEN v.w ELSE <<>>

\* C3: whenever subject rows are read from the raw text, the subjects of the
\* validated record are those rows alone: they are the subjects the same text
\* yields for a record without any row of the LLM, for SSC and for CBSE
C3_ReplacedWholesale ==
  runs >= 1 =>
    /\ SscRead => data.subjects = SscBlankOf[raw_text].subjects
    /\ CbseRead =>
         /\ data.subjects = CbseBlankOf[raw_text].subjects
         /\ data.additional_subjects = CbseBlankOf[raw_text].additional_subjects

\* an SSC record whose LLM rows were replaced by rows of the text
C3_Witness ==
  /\ runs = 1
  /\ SscRead
  /\ Rows(original.subjects) # <<>>
  /\ data.subjects # original.subjects
  /\ \A i \in 1..Len(Rows(data.subjects)) :
       \A j \in 1..Len(Rows(original.subjects)) :
         Rows(data.subjects)[i] # Rows(original.subjects)[j]

\* C4: after validate_and_fix_ssc_marksheet, total_max_marks is 400, 500, 600 or
\* None, whatever the LLM reported and whatever the text holds
C4_TotalMaxValid ==
  (runs >= 1 /\ board = "ssc") =>
    data.total_max_marks \in {None, PyInt(400), PyInt(500), PyInt(600)}

\* the LLM reported 700, the text prints 700, and the validated record holds None
C4_Witness ==
  /\ runs = 1
  /\ board = "ssc"
  /\ original.total_max_marks = PyInt(700)
  /\ \E i \in 1..Len(SscText) : SscText[i] = "700"
  /\ data.total_max_marks = None

\* C5: validate_and_fix_ssc_marksheet is idempotent: a run on its own output with
\* the same text returns that output, in every field
C5_SscIdempotent ==
  (board = "ssc" /\ runs >= 2) => data = prev

\* a second SSC run after a first run that changed the record
C5_Witness ==
  /\ board = "ssc"
  /\ runs = 2
  /\ prev # original
  /\ data = prev

\* C6: validate_and_fix_cbse_marksheet is idempotent: a run on its own output
\* with the same text changes nothing, subjects and additional_subjects included
C6_CbseIdempotent ==
  (board = "cbse" /\ runs >= 2) => data = prev

\* a value is populated: the key is there and holds something else than None
Populated(v) == v \notin {None, Absent}

\* the subject rows of the record, additional subjects included
AllRows == Rows(data.subjects) \o Rows(data.additional_subjects)

InText(word) == HasPhrase(Flatten(raw_text), <<word>>)

Corrected ==
  \E f \in Fields \ {"_extraction_warnings", "_needs_manual_review", "_extraction_method"} :
    data[f] # original[f]

\* the five names the SSC validator appends to its anomaly list
AnomalyNames ==
  {"subject_extraction_failed", "possible_format_change", "missing_student_name",
   "insufficient_subjects", "missing_percentage"}

\* the warning list of the record, as a set of names
Warnings == {Rows(data._extraction_warnings)[i] : i \in 1..Len(Rows(data._extraction_warnings))}

\* C9 as stated: whenever a validator has changed a field, the warning list of
\* the returned record is non-empty
C9_CorrectionsRecorded ==
  (runs = 1 /\ Corrected) => Warnings # {}

\* C9 amended: the warning list holds anomaly names only, never a correction.
\* The SSC validator writes it exactly when an anomaly is found, and then sets
\* _needs_manual_review; subject_extraction_failed and missing_percentage stand
\* in it exactly when the rows could not be read and when the percentage is
\* None.  The CBSE validator leaves the warning metadata as it came
C9_WarningsAreAnomalies ==
  runs >= 1 =>
    /\ board = "ssc" =>
         /\ Warnings \subseteq AnomalyNames
         /\ Warnings # {} <=> data._needs_manual_review = PyTrue
         /\ "subject_extraction_failed" \in Warnings <=> ~SscRead
         /\ "missing_percentage" \in Warnings <=> data.percentage = None
         /\ "insufficient_subjects" \in Warnings <=> Len(Rows(data.subjects)) < 5
    /\ board = "cbse" =>
         /\ data._extraction_warnings = original._extraction_warnings
         /\ data._needs_manual_review = original._needs_manual_review

\* an SSC run that corrected total_max_marks and the names and left no warning
C9_Witness ==
  /\ runs = 1
  /\ board = "ssc"
  /\ original.total_max_marks = PyInt(700)
  /\ data.total_max_marks = PyInt(500)
  /\ data.mother_name # original.mother_name
  /\ data._extraction_warnings = Absent

\* the totals window of the text holds the number as a three-digit word
InTotalsWindow(n) ==
  \E i \in 1..Len(_totals_area(SscText)) : ThreeDigitWord(_totals_area(SscText)[i]) = n

\* C10: after SSC validation total_marks_obtained is None, or it is below
\* total_max_marks, at least half of it, and written in the totals window of the
\* text; also for a text in which no valid total_max_marks is found
C10_TotalObtainedVerified ==
  (runs >= 1 /\ board = "ssc") =>
    \/ data.total_marks_obtained = None
    \/ /\ data.total_max_marks # None
       /\ data.total_marks_obtained.n < data.total_max_marks.n
       /\ 2 * data.total_marks_obtained.n >= data.total_max_marks.n
       /\ InTotalsWindow(data.total_marks_obtained.n)

\* C11: after SSC validation percentage is None, or a value of two decimals in
\* 0..100 that is written in the totals window of the text, the part from the
\* last trailing-subject marker onward; a percentage of the LLM that the text
\* shows only before the window is not kept
C11_PercentageInTotalsWindow ==
  (runs >= 1 /\ board = "ssc") =>
    \/ data.percentage = None
    \/ /\ data.percentage.k = "float"
       /\ data.percentage.n >= 0 /\ data.percentage.n <= 100000
       /\ data.percentage.n = Round2(data.percentage.n)
       /\ PctInText(_totals_area(SscText), data.percentage.n)

\* ------------------------------------------------------------------------
\* Properties of the pipeline (SpecPipeline)
\* ------------------------------------------------------------------------

\* the text the primary engine read in the file
PrimaryText == file.primary.text

\* the request is past the script router
Routed == pc \in {"alternate", "check", "extract", "done"} /\ file.primary.success

\* C17: a file whose primary text has three or more hits among the marksheet
\* keywords never reaches the alternate engine: is_gibberish_or_devanagari is false
\* of the text, and smart_ocr returns the primary result, whatever the length
\* of the text and its share of Devanagari
C17_MarksheetKeepsPrimary ==
  (file.primary.success /\ hits(PrimaryText) >= 3) =>
    /\ ~is_gibberish_or_devanagari(PrimaryText)
    /\ pc # "alternate"
    /\ calls.alternate = 0
    /\ Routed => ocr_result = file.primary

\* a marksheet text, most of it Devanagari, has been routed
C17_Witness ==
  /\ pc = "check"
  /\ hits(PrimaryText) >= 3
  /\ devanagari_check(PrimaryText)
  /\ ocr_result = file.primary

\* the predicates of the classifier in their order, each with the answer it
\* gives when it is the first to hold
Predicates(t) ==
  << [holds |-> is_marksheet(t), answer |-> FALSE],
     [holds |-> total_chars(t) < 50, answer |-> TRUE],
     [holds |-> devanagari_check(t), answer |-> TRUE],
     [holds |-> few_words_check(t), answer |-> TRUE],
     [holds |-> artifact_check(t), answer |-> TRUE],
     [holds |-> mixed_check(t), answer |-> TRUE],
     [holds |-> financial_check(t), answer |-> FALSE],
     [holds |-> Cardinality(Found(t, "common")) < 5, answer |-> TRUE],
     [holds |-> caps_check(t), answer |-> TRUE],
     [holds |-> cluster_check(t), answer |-> TRUE],
     [holds |-> single_check(t), answer |-> TRUE],
     [holds |-> length_check(t), answer |-> TRUE] >>

\* the answer of the first predicate that holds, FALSE when none does
FirstTrue(ps) ==
  IF \A i \in 1..Len(ps) : ~ps[i].holds THEN FALSE
  ELSE ps[CHOOSE i \in 1..Len(ps) : ps[i].holds /\ \A j \in 1..(i - 1) : ~ps[j].holds].answer

\* C18: the answer of is_gibberish_or_devanagari is the answer of the first
\* predicate that holds in the order marksheet, length, Devanagari, words,
\* artifacts, mixing, financial keywords, common words, capitals, clusters,
\* single letters, word length, and false when none holds; the router takes the
\* alternate engine on that answer
C18_FirstTruePredicateDecides ==
  /\ is_gibberish_or_devanagari(PrimaryText) = FirstTrue(Predicates(PrimaryText))
  /\ Routed /\ calls.alternate = 0 /\ pc # "alternate" =>
       ~FirstTrue(Predicates(PrimaryText))
  /\ pc = "alternate" => FirstTrue(Predicates(PrimaryText))

\* a text of fifty characters or more, a tenth of them Devanagari, that is no
\* marksheet has been sent to the alternate engine
C18_Witness ==
  /\ pc = "alternate"
  /\ ~is_marksheet(PrimaryText)
  /\ total_chars(PrimaryText) >= 50
  /\ 10 * Count(PrimaryText, "devanagari") >= total_chars(PrimaryText)

\* C20: when the primary result has no success the request is over at once
\* with the RuntimeError of smart_ocr: the primary engine has run once, the
\* alternate engine and the LLM not at all
C20_PrimaryFailureIsFatal ==
  (pc # "primary" /\ ~file.primary.success) =>
    /\ pc = "done"
    /\ status = "raised"
    /\ error = <<"DocTR", "OCR", "failed">>
    /\ calls = [primary |-> 1, alternate |-> 0, llm |-> 0]
    /\ response = <<>> /\ data = EmptyRecord

\* the request of a file the primary engine could not read has ended
C20_Witness ==
  /\ pc = "done"
  /\ ~file.primary.success
  /\ calls.primary = 1
  /\ status = "raised"

\* ------------------------------------------------------------------------
\* Properties of the board detector (SpecDetect)
\* ------------------------------------------------------------------------

\* the boards in the order in which their indicators are tried
BoardOrder == <<"cbse", "icse", "ssc">>

\* C19: the board detector answers the first board, in the order cbse, icse,
\* ssc, of which the text holds an indicator, and unknown when it holds none; a
\* text with a CBSE indicator and an SSC indicator is answered cbse
C19_FirstBoardInOrder ==
  status = "returned" =>
    /\ \A i \in 1..Len(BoardOrder) :
         (Indicator(raw_text, BoardOrder[i])
            /\ \A j \in 1..(i - 1) : ~Indicator(raw_text, BoardOrder[j]))
           => board = BoardOrder[i]
    /\ (\A i \in 1..Len(BoardOrder) : ~Indicator(raw_text, BoardOrder[i]))
         => board = "unknown"
    /\ (Indicator(raw_text, "cbse") /\ Indicator(raw_text, "ssc")) => board = "cbse"

\* a text that shows SEAT NO before CBSE has been answered cbse
C19_Witness ==
  /\ status = "returned"
  /\ Indicator(raw_text, "cbse") /\ Indicator(raw_text, "ssc")
  /\ raw_text[1] = <<"SEAT", "NO">>
  /\ board = "cbse"

\* one of the five conditions of a warning holds of the record the SSC
\* validator returned
WarningApplies ==
  \/ extract_subjects_from_raw_text(SscText) = <<>>
  \/ _detect_potential_format_change(SscText)
  \/ ~Truthy(Get(data.student_name))
  \/ Len(Rows(data.subjects)) < 5
  \/ data.percentage = None

\* C21: the record the SSC validator returns carries the warning list exactly
\* when one of the five conditions holds, and then a non-empty list together
\* with _needs_manual_review = True; when none holds it carries neither the
\* list nor the flag
C21_WarningsIffRaised ==
  LET Carried(applies) ==
        /\ applies <=> data._extraction_warnings # Absent
        /\ applies =>
             /\ data._extraction_warnings.k = "list"
             /\ Rows(data._extraction_warnings) # <<>>
             /\ data._needs_manual_review = PyTrue
        /\ ~applies => data._needs_manual_review = Absent
  IN  (runs >= 1 /\ board = "ssc") => Carried(WarningApplies)

\* an SSC run of a record to which no condition of a warning applies
C21_Witness ==
  /\ runs = 1
  /\ board = "ssc"
  /\ ~WarningApplies
  /\ Len(Rows(data.subjects)) >= 5
  /\ data._needs_manual_review = Absent

\* ------------------------------------------------------------------------
\* Properties of the SSC subject extraction (SpecExtract)
\* ------------------------------------------------------------------------

\* the strategies in the order of extract_subjects_from_raw_text
StrategyOrder == <<"code", "table", "fuzzy">>

\* the rows each strategy gives for the text of the state
StrategyRows ==
  [code |-> _extract_by_code_position(SscText, detect_ssc_format_version(SscText)),
   table |-> _extract_by_table_structure(SscText),
   fuzzy |-> _extract_by_fuzzy_matching(SscText)]

\* C26: the strategies are run in the order code position, table structure,
\* fuzzy matching; the extraction returns the rows of the first that gives four
\* rows or more and runs none after it; it returns the empty list when none
\* does, so that it returns no row or at least four
C26_FirstStrategyWins ==
  /\ \E n \in 0..Len(StrategyOrder) : tried = SubSeq(StrategyOrder, 1, n)
  /\ \A i \in 1..Len(tried) : \A j \in 1..(i - 1) : Len(StrategyRows[tried[j]]) < 4
  /\ (status = "returned" /\ pc = "done") =>
       /\ tried # <<>>
       /\ IF Len(StrategyRows[tried[Len(tried)]]) >= 4
          THEN subjects = StrategyRows[tried[Len(tried)]]
          ELSE tried = StrategyOrder /\ subjects = <<>>
       /\ Len(subjects) = 0 \/ Len(subjects) >= 4
       /\ subjects = extract_subjects_from_raw_text(SscText)

\* the table strategy returned its rows after the code positions gave too few,
\* and the fuzzy strategy was not run
C26_Witness ==
  /\ status = "returned"
  /\ tried = <<"code", "table">>
  /\ Len(subjects) >= 4
  /\ Len(StrategyRows.fuzzy) >= 4
  /\ StrategyRows.fuzzy # subjects

\* the code strategy returned its rows
CodeReturned == status = "returned" /\ tried = <<"code">>

\* the positions of the subject codes in the text, and the segment of the k-th:
\* the tokens up to the next code
CodePositions ==
  SortedSeq({i \in 1..Len(SscText) : CodeAt(SscText, detect_ssc_format_version(SscText), i)})

SegmentFrom(k) == CodePositions[k] + 1

SegmentTo(k) == IF k < Len(CodePositions) THEN CodePositions[k + 1] - 1 ELSE Len(SscText)

\* the rows the code strategy has for the codes before the k-th, and for the k-th
RowsBefore(k) == Len(subjects) - Len(CodeRows(SscText, CodePositions, k))

RowsOfCode(k) ==
  SubSeq(subjects, RowsBefore(k) + 1,
         Len(subjects) - Len(CodeRows(SscText, CodePositions, k + 1)))

\* the places of the k-th segment where 100, marks of two or three digits and a
\* capitalised word follow one another
MarksPlaces(k) ==
  {j \in SegmentFrom(k)..(SegmentTo(k) - 2) :
     /\ SscText[j] = "100"
     /\ AllDigits(SscText[j + 1]) /\ TokLen(SscText[j + 1]) \in {2, 3}
     /\ StartsUpper(SscText[j + 2])}

\* C22: the code strategy gives, for every code whose segment holds 100, marks
\* of two or three digits and a capitalised word, one row with the name of the
\* code, the marks as an integer, max_marks 100 and no grade
C22_NumericRowOfCode ==
  CodeReturned =>
    \A k \in 1..Len(CodePositions) :
      MarksPlaces(k) # {} =>
        RowsOfCode(k) =
          << [subject_name |-> code_map[SscText[CodePositions[k]]],
              marks_obtained |-> PyInt(IntOf(DigitPrefix(SscText[Min(MarksPlaces(k)) + 1]))),
              max_marks |-> PyInt(100),
              grade |-> None] >>

\* 71 MATHEMATICS 100 090 NINETY has given Mathematics with 90 of 100
C22_Witness ==
  /\ CodeReturned
  /\ \E k \in 1..Len(CodePositions) :
       /\ SubSeq(SscText, CodePositions[k], SegmentTo(k))
            = <<"71", "MATHEMATICS", "100", "090", "NINETY">>
       /\ RowsOfCode(k) = <<NumericRow("Mathematics", 90)>>

\* the bare letters A to E of the k-th segment, by position
BareLetters(k) ==
  {j \in SegmentFrom(k)..SegmentTo(k) : SscText[j] \in _SSC_VALID_GRADE_LETTERS}

\* C23: the code strategy gives, for every code whose segment holds no 100, a
\* row without marks whose grade is the first bare letter A to E of the segment,
\* never a letter of a word
C23_GradeIsBareLetter ==
  CodeReturned =>
    \A k \in 1..Len(CodePositions) :
      (\A j \in SegmentFrom(k)..SegmentTo(k) : SscText[j] # "100") =>
        \A i \in 1..Len(RowsOfCode(k)) :
          /\ RowsOfCode(k)[i].marks_obtained = None
          /\ BareLetters(k) # {}
          /\ RowsOfCode(k)[i].grade = PyStr(<<SscText[Min(BareLetters(k))]>>)

\* C30: every row with marks that the extraction returns, whichever strategy
\* gave it, has max_marks 100 and integer marks from 0 to 100
C30_MarksWithinHundred ==
  status = "returned" =>
    \A i \in 1..Len(subjects) :
      subjects[i].marks_obtained # None =>
        /\ subjects[i].max_marks = PyInt(100)
        /\ subjects[i].marks_obtained.k = "int"
        /\ subjects[i].marks_obtained.n >= 0
        /\ subjects[i].marks_obtained.n <= 100

\* ------------------------------------------------------------------------
\* Properties of the SSC fallback to the rows of the LLM (Spec)
\* ------------------------------------------------------------------------

\* no strategy read the rows of the text: the rows of the LLM are kept
SscFallback == board = "ssc" /\ ~SscRead

\* the rows the LLM reported, and the rows of the validated record
GivenRows == Rows(original.subjects)

KeptRows == Rows(data.subjects)

\* the row is not one of the grade-only subjects
NumericName(row) == LowerStrip(row.subject_name) \notin _SSC_GRADE_ONLY_NAMES

SameName(a, b) == LowerStrip(a.subject_name) = LowerStrip(b.subject_name)

\* the number that marks_obtained stands for, in thousandths; 0 without marks
MarksValue(v) == IF Truthy(v) THEN FloatOfStr(v) ELSE 0

\* C28: in the fallback each numeric subject name stands in the validated
\* record at most once, and its row carries the highest marks_obtained that
\* the LLM reported under that name; subject_extraction_failed is among the
\* warnings exactly in the fallback
C28_FallbackKeepsHighest ==
  (runs >= 1 /\ board = "ssc") =>
    /\ "subject_extraction_failed" \in Warnings <=> SscFallback
    /\ SscFallback =>
         \A i \in 1..Len(KeptRows) :
           NumericName(KeptRows[i]) =>
             /\ \A j \in 1..Len(KeptRows) : SameName(KeptRows[j], KeptRows[i]) => j = i
             /\ \A j \in 1..Len(GivenRows) :
                  SameName(GivenRows[j], KeptRows[i]) =>
                    MarksValue(GivenRows[j].marks_obtained)
                      <= MarksValue(KeptRows[i].marks_obtained)


\* ------------------------------------------------------------------------
\* Properties of the names (Spec)
\* ------------------------------------------------------------------------

\* the field holds a value other than None
NonNull(v) == v # None /\ v # Absent

\* the words of a name
NameWords(v) == IF v.k = "str" THEN v.w ELSE <<>>

\* the first n words of the name the LLM reported, or all of them
Leading(v, n) == SubSeq(NameWords(v), 1, Min({n, Len(NameWords(v))}))

\* C24: after SSC validation a non-null mother_name is one word and a
\* non-null student_name at most three, the leading words of the LLM's value;
\* after CBSE validation a non-null mother_name is one word
C24_NameWordCounts ==
  runs >= 1 =>
    /\ (board = "ssc" /\ NonNull(data.mother_name)) =>
         /\ Len(NameWords(data.mother_name)) = 1
         /\ NameWords(data.mother_name) = Leading(original.mother_name, 1)
    /\ (board = "ssc" /\ NonNull(data.student_name)) =>
         /\ Len(NameWords(data.student_name)) <= 3
         /\ NameWords(data.student_name) = Leading(original.student_name, 3)
    /\ (board = "cbse" /\ NonNull(data.mother_name)) =>
         Len(NameWords(data.mother_name)) = 1

\* ------------------------------------------------------------------------
\* Properties of the CBSE marks against the grade bands (Spec)
\* ------------------------------------------------------------------------

\* the rows of the validated CBSE record, main and additional
CbseKept == Rows(data.subjects) \o Rows(data.additional_subjects)

\* the row has numeric marks and a grade of the 9-band table
Banded(row) ==
  /\ Get(row.marks_obtained).k = "int"
  /\ InValidGrades(Get(row.grade))
  /\ grade_to_marks_range(Get(row.grade).w[1]) # 0

BandLo(row) == _GRADE_BANDS[grade_to_marks_range(Get(row.grade).w[1])].lo

BandHi(row) == _GRADE_BANDS[grade_to_marks_range(Get(row.grade).w[1])].hi

\* the marks of a banded row lie inside the band of its grade
InBand(row) ==
  Banded(row) => (BandLo(row) <= row.marks_obtained.n /\ row.marks_obtained.n <= BandHi(row))

\* the rows of the LLM that the fallback loop cleans: the first of each name
FirstGiven ==
  {j \in 1..Len(GivenRows) :
     \A i \in 1..(j - 1) :
       LowerStrip(Strip(GivenRows[i].subject_name)) # LowerStrip(Strip(GivenRows[j].subject_name))}

\* the row of the LLM carries marks outside the band of the grade it carries
OutOfBand(row) ==
  /\ LowerStrip(Strip(row.subject_name)) \notin _GRADE_ONLY_SUBJECTS
  /\ Banded([row EXCEPT !.marks_obtained = ToInt(Get(row.marks_obtained))])
  /\ ~InBand([row EXCEPT !.marks_obtained = ToInt(Get(row.marks_obtained))])

\* the code, the marks and the grade of each row
Printed(rows) ==
  {<<rows[i].subject_code, rows[i].marks_obtained, rows[i].grade>> : i \in 1..Len(rows)}

\* C27 as stated: every row of the validated CBSE record with numeric marks and
\* a grade of the 9-band table has its marks inside the band of the grade,
\* whether the row came from the text or from the LLM
C27_MarksInsideBand ==
  (runs >= 1 /\ board = "cbse") => \A i \in 1..Len(CbseKept) : InBand(CbseKept[i])

\* C27 amended: the cross-check is made on the rows of the LLM only.  When no
\* rows are read from the text, every row of the record lies inside the band
\* of its grade, and a row of the LLM with marks outside the band is kept with
\* the midpoint (lo + hi) \div 2 of the band; the rows read from the text keep
\* the marks and the grade that are printed, inside the band or not
C27_FallbackMarksInsideBand ==
  LET Checked(parsed) ==
        /\ parsed = <<>> => \A i \in 1..Len(CbseKept) : InBand(CbseKept[i])
        /\ (parsed = <<>> /\ runs = 1) =>
             /\ Len(CbseKept) = Cardinality(FirstGiven)
             /\ \A j \in FirstGiven :
                  OutOfBand(GivenRows[j]) =>
                    \E i \in 1..Len(CbseKept) :
                      /\ CbseKept[i].subject_code = GivenRows[j].subject_code
                      /\ CbseKept[i].grade = GivenRows[j].grade
                      /\ CbseKept[i].marks_obtained
                           = PyInt((BandLo(GivenRows[j]) + BandHi(GivenRows[j])) \div 2)
        /\ parsed # <<>> => Printed(CbseKept) = Printed(parsed)
  IN  (runs >= 1 /\ board = "cbse") => Checked(cbse_extract_subjects_from_raw_text(raw_text))

\* a CBSE run that replaced the marks of a row of the LLM by the midpoint of
\* the band of its grade
C27_Witness ==
  /\ runs = 1
  /\ board = "cbse"
  /\ ~CbseRead
  /\ \E j \in FirstGiven :
       /\ OutOfBand(GivenRows[j])
       /\ GivenRows[j].marks_obtained = PyInt(68)
       /\ \E i \in 1..Len(CbseKept) :
            /\ CbseKept[i].subject_code = GivenRows[j].subject_code
            /\ CbseKept[i].marks_obtained = PyInt(95)

\* ------------------------------------------------------------------------
\* Properties of the other document types (SpecDispatch)
\* ------------------------------------------------------------------------

\* the document types the validation has a rule for
ValidatedTypes ==
  {PyStr(<<"marksheet">>), PyStr(<<"income_certificate">>),
   PyStr(<<"pass_book">>), PyStr(<<"passbook">>)}

\* C25: a record whose document_type is none of marksheet, income_certificate,
\* pass_book and passbook is returned by the validation dispatcher with every
\* field as it came
C25_OtherTypesUnchanged ==
  (runs >= 1 /\ original.document_type \notin ValidatedTypes) =>
    /\ status = "returned"
    /\ \A f \in Fields : data[f] = original[f]

\* an aadhaar record returned with a parent_name that the pass-book check
\* would have rejected
C25_Witness ==
  /\ runs = 1
  /\ status = "returned"
  /\ original.document_type = PyStr(<<"aadhaar">>)
  /\ Truthy(original.parent_name)
  /\ ValidateParentName(original).value.parent_name # original.parent_name
  /\ data.parent_name = original.parent_name

\* ------------------------------------------------------------------------
\* Properties of the OCR model singleton (SpecDoctr)
\* ------------------------------------------------------------------------

\* the instance has been placed on its device: its construction is complete
Initialised(i) == constructed[i] \in {"gpu", "cpu"}

\* C29: under every interleaving of the threads that call
\* initialize_doctr_model, at most one instance of the OCR model is
\* constructed, every call that has returned returned that instance, and
\* neither the global nor a caller ever holds an instance whose construction
\* is not complete
C29_OneModelFullyInitialised ==
  /\ Len(constructed) <= 1
  /\ \A t \in Threads : returned[t] # 0 => returned[t] = _doctr_model
  /\ \A t \in Threads : returned[t] # 0 => Initialised(returned[t])
  /\ _doctr_model # 0 => Initialised(_doctr_model)

\* a thread that found the global None without the lock holds the lock and is
\* about to find the model that another thread constructed meanwhile and
\* has returned
C29_Witness ==
  \E t \in Threads :
    /\ at[t] = "locked"
    /\ _doctr_lock = t
    /\ _doctr_model # 0
    /\ \E u \in Threads \ {t} : returned[u] = _doctr_model /\ at[u] = "idle"

=============================================================================
